---- MODULE Spec2Model ----
(***************************************************************************)
(* Model of the RBAC engine of django-ansible-base: role definitions,      *)
(* object roles, assignments, the derived provides_teams relation and the  *)
(* RoleEvaluation cache, together with the triggers that keep the cache    *)
(* up to date.                                                              *)
(*                                                                         *)
(* Every store operation is written as an operator from a store record s   *)
(* (one field per table or relation) to the store after the operation; an  *)
(* action applies one such operator to the current store.  An operation    *)
(* that raises leaves the store as it was (the callers run it inside       *)
(* transaction.atomic) and records the exception in `last`.                *)
(*                                                                         *)
(* A primary key is one integer wherever it appears: the text form that    *)
(* ObjectRole.object_id takes in the database and the integer form of      *)
(* Team.id and RoleEvaluation.object_id denote the same key here.          *)
(***************************************************************************)
EXTENDS Integers, FiniteSets, Sequences, TLC

VARIABLES
    parent_id,          \* resource <<model, pk>> -> pk of its parent (0: no parent field)
    users,              \* rows of the user table
    user_flags,         \* <<user, flag>>: boolean attributes set on a user
    permissions,        \* RoleDefinition.permissions: role definition -> codenames
    content_types,      \* RoleDefinition.content_type: role definition -> model, or "None"
    settings,           \* the ANSIBLE_BASE_ALLOW_SINGLETON_*_ROLES settings
    object_roles,       \* rows of ObjectRole
    user_assignments,   \* RoleUserAssignment rows with an object role: <<object role, user>>
    team_assignments,   \* RoleTeamAssignment rows with an object role: <<object role, team pk>>
    provides_teams,     \* ObjectRole.provides_teams (Team.member_roles): <<object role, team pk>>
    evaluations,        \* rows of RoleEvaluation
    singleton_users,    \* global (object_role = NULL) user assignments: <<role definition, user, id>>
    singleton_teams,    \* global team assignments: <<role definition, team pk, id>>
    pending,            \* give_global_permission calls between the get and the create of get_or_create
    registry,           \* permission_registry: models, name_to_model, parent_fields, apps_ready
    last                \* the exception the last operation raised, "" when it returned

vars == <<parent_id, users, user_flags, permissions, content_types, settings, object_roles,
          user_assignments, team_assignments, provides_teams, evaluations, singleton_users,
          singleton_teams, pending, registry, last>>

----------------------------------------------------------------------------
(* Bounds of the explored universe *)

MaxTeams == 1
MaxInvs == 1
MaxAssignments == 3
MaxNamespaces == 2
MaxImports == 1
ChainLen == 3
CycleTeams == 3

OrgIds == {1, 2}
TeamIds == 1..MaxTeams
InvIds == 1..MaxInvs
NamespaceIds == 1..MaxNamespaces
ImportIds == 1..MaxImports
Users == {"rando"}

----------------------------------------------------------------------------
(* Registry and permission catalog *)

\* PermissionRegistry._parent_fields after the registrations of the test application
parent_fields ==
    [inventory |-> "organization", namespace |-> "organization",
     team |-> "organization", collectionimport |-> "namespace"]

get_parent_fd_name(model) ==
    IF model \in DOMAIN parent_fields THEN parent_fields[model] ELSE "None"

\* NOTE in the source: the parent field name is the name of the parent model
get_parent_model(model) == get_parent_fd_name(model)

\* entries [path, model]; path is the filter path split at "__"
RECURSIVE get_child_models(_)
get_child_models(parent) ==
    UNION { {[path |-> <<parent>>, model |-> m]}
            \cup {[path |-> g.path \o <<parent>>, model |-> g.model] : g \in get_child_models(m)}
          : m \in {x \in DOMAIN parent_fields : parent_fields[x] = parent} }

\* a model class is <<app label, model name>>; the registry of an application that has
\* started: the models of test_app registered, then call_when_apps_ready
StartedRegistry ==
    [models |-> {<<"test_app", m>> : m \in DOMAIN parent_fields \cup {"organization"}},
     name_to_model |-> [m \in DOMAIN parent_fields \cup {"organization"} |-> <<"test_app", m>>],
     parent_fields |-> parent_fields,
     apps_ready |-> TRUE]

\* a codename "<action>_<model>" is the pair <<action, model>>; the content type of
\* the permission is the model of the codename
Codename(action, model) == <<action, model>>
team_permission == Codename("member", "team")
is_add_perm(codename) == codename[1] = "add"

CACHE_PARENT_PERMISSIONS == FALSE

\* test_app settings: global roles are allowed for users and for teams, and no kind of
\* assignment to a team is prohibited
DefaultSettings ==
    [ALLOW_SINGLETON_USER_ROLES |-> TRUE, ALLOW_SINGLETON_TEAM_ROLES |-> TRUE,
     TEAM_TEAM_ALLOWED |-> TRUE, TEAM_ORG_ALLOWED |-> TRUE, TEAM_ORG_TEAM_ALLOWED |-> TRUE,
     CACHE_PARENT_PERMISSIONS |-> CACHE_PARENT_PERMISSIONS]

\* role definitions of the test suite (conftest.py, test_permission_assignment.py,
\* test_singleton_roles.py); "org-role" stands for the organization role a deployment
\* defines, "global-change-inv" is a global role (content_type None)
RoleDefs == {"team-member", "inv-admin", "org-role"}
GlobalRoleDefs == {"global-change-inv"}

rd_content_type ==
    [r \in RoleDefs \cup GlobalRoleDefs |->
        CASE r = "team-member" -> "team"
          [] r = "inv-admin" -> "inventory"
          [] r = "org-role" -> "organization"
          [] OTHER -> "None"]

\* org_inv_rd of conftest.py
OrgAdminPermissions ==
    {Codename("change", "organization"), Codename("view", "organization"),
     Codename("change", "inventory"), Codename("view", "inventory")}

\* the member role given on an organization (TestOrgTeamMemberAssignment)
OrgMemberPermissions ==
    {team_permission, Codename("view", "team"), Codename("view", "organization")}

\* an organization role that reaches the children of its children
OrgNamespacePermissions ==
    {Codename("view", "organization"), Codename("view", "namespace"),
     Codename("view", "collectionimport")}

InitialPermissions(org_permissions) ==
    [r \in RoleDefs \cup GlobalRoleDefs |->
        CASE r = "team-member" -> {team_permission, Codename("view", "team")}
          [] r = "org-role" -> org_permissions
          [] OTHER -> {Codename("change", "inventory"), Codename("view", "inventory")}]

----------------------------------------------------------------------------
(* The store as one record, and queries on it *)

DB ==
    [parent_id |-> parent_id, users |-> users, user_flags |-> user_flags,
     permissions |-> permissions, content_types |-> content_types, settings |-> settings,
     object_roles |-> object_roles,
     user_assignments |-> user_assignments, team_assignments |-> team_assignments,
     provides_teams |-> provides_teams, evaluations |-> evaluations,
     singleton_users |-> singleton_users, singleton_teams |-> singleton_teams,
     pending |-> pending, registry |-> registry,
     log |-> << >>]       \* the recomputations called by the operation in progress

Resource(model, pk) == <<model, pk>>
ObjectRole(rd, ct, pk) == [role_definition |-> rd, content_type |-> ct, object_id |-> pk]
RoleEvaluation(role, codename, ct, pk) ==
    [role |-> role, codename |-> codename, content_type_id |-> ct, object_id |-> pk]

ObjectsOf(s, model) == {r \in DOMAIN s.parent_id : r[1] = model}
PksOf(s, model) == {r[2] : r \in ObjectsOf(s, model)}

RoleUsers(s, R) == {a[2] : a \in {x \in s.user_assignments : x[1] = R}}
RoleTeams(s, R) == {a[2] : a \in {x \in s.team_assignments : x[1] = R}}
RoleProvidesTeams(s, R) == {a[2] : a \in {x \in s.provides_teams : x[1] = R}}
user_has_roles(s, u) == {a[1] : a \in {x \in s.user_assignments : x[2] = u}}
team_has_roles(s, t) == {a[1] : a \in {x \in s.team_assignments : x[2] = t}}
team_member_roles(s, t) == {a[1] : a \in {x \in s.provides_teams : x[2] = t}}
RolesOn(s, ct, pk) == {R \in s.object_roles : R.content_type = ct /\ R.object_id = pk}
RoleEvaluations(s, R) == {e \in s.evaluations : e.role = R}

\* on_delete=CASCADE from ObjectRole to its assignments, provides_teams rows and evaluations
DeleteObjectRoles(s, gone) ==
    [s EXCEPT !.object_roles = @ \ gone,
              !.user_assignments = {a \in @ : a[1] \notin gone},
              !.team_assignments = {a \in @ : a[1] \notin gone},
              !.provides_teams = {a \in @ : a[1] \notin gone},
              !.evaluations = {e \in @ : e.role \notin gone}]

----------------------------------------------------------------------------
(* Materializer: ObjectRole.expected_direct_permissions, needed_cache_updates *)

\* child_model.objects.filter(**{filter_path: object_id}): the row o reaches pk
\* through the chain of parent fields in path (a join for every "__")
RECURSIVE Reaches(_, _, _, _)
Reaches(s, o, path, pk) ==
    IF Len(path) = 1 THEN s.parent_id[o] = pk
    ELSE LET p == Resource(path[1], s.parent_id[o])
         IN p \in DOMAIN s.parent_id /\ Reaches(s, p, Tail(path), pk)

\* the loop pass with the tuple on the parent object written for the setting alone
\* (used to test the sensitivity of the property of add permissions)
PermissionExpectedForSetting(s, R, codename) ==
    LET pct == codename[2]
        own == {<<codename, R.content_type, R.object_id>>}
        children == get_child_models(R.content_type)
    IN IF pct = R.content_type THEN own
       ELSE LET on_parent == IF s.settings.CACHE_PARENT_PERMISSIONS THEN own ELSE {}
                matches == IF is_add_perm(codename)
                           THEN {g \in children : Len(g.path) >= 2 /\ g.model = pct}
                           ELSE {g \in children : g.model = pct}
            IN IF matches = {} THEN on_parent
               ELSE LET g == CHOOSE x \in matches : TRUE
                        child_model == IF is_add_perm(codename) THEN parent_fields[pct] ELSE g.model
                        filter_path == IF is_add_perm(codename) THEN Tail(g.path) ELSE g.path
                        id_list == {o[2] : o \in {x \in ObjectsOf(s, child_model) :
                                                     Reaches(s, x, filter_path, R.object_id)}}
                    IN on_parent \cup {<<codename, child_model, pk>> : pk \in id_list}

\* the tuples one permission of the role definition contributes (one pass of the loop)
PermissionExpected(s, R, codename) ==
    LET pct == codename[2]
        own == {<<codename, R.content_type, R.object_id>>}
        children == get_child_models(R.content_type)
    IN IF pct = R.content_type THEN own
       ELSE LET on_parent == IF is_add_perm(codename) \/ s.settings.CACHE_PARENT_PERMISSIONS
                             THEN own ELSE {}
                matches == IF is_add_perm(codename)
                           THEN {g \in children : Len(g.path) >= 2 /\ g.model = pct}
                           ELSE {g \in children : g.model = pct}
            IN IF matches = {} THEN on_parent
               ELSE LET g == CHOOSE x \in matches : TRUE
                        child_model == IF is_add_perm(codename) THEN parent_fields[pct] ELSE g.model
                        filter_path == IF is_add_perm(codename) THEN Tail(g.path) ELSE g.path
                        id_list == {o[2] : o \in {x \in ObjectsOf(s, child_model) :
                                                     Reaches(s, x, filter_path, R.object_id)}}
                    IN on_parent \cup {<<codename, child_model, pk>> : pk \in id_list}

\* TypesPrefetch.permissions_for_object_role: the permissions of the role's definition
permissions_for_object_role(s, R) == s.permissions[R.role_definition]

expected_direct_permissions(s, R) ==
    UNION {PermissionExpected(s, R, c) : c \in permissions_for_object_role(s, R)}

ExpectedEvaluations(s, R) ==
    expected_direct_permissions(s, R)
    \cup UNION {expected_direct_permissions(s, team_role) :
                   team_role \in UNION {team_has_roles(s, t) : t \in RoleProvidesTeams(s, R)}}

needed_cache_updates(s, R) ==
    LET existing_set == {<<e.codename, e.content_type_id, e.object_id>> : e \in RoleEvaluations(s, R)}
        expected_evaluations == ExpectedEvaluations(s, R)
    IN [to_delete |-> {e \in RoleEvaluations(s, R) :
                          <<e.codename, e.content_type_id, e.object_id>> \notin expected_evaluations},
        to_add |-> {RoleEvaluation(R, t[1], t[2], t[3]) : t \in expected_evaluations \ existing_set}]

\* caching.compute_object_role_permissions: all updates are computed from the store
\* as it is, then one bulk insert and one bulk delete
\* a materializer that inserts the missing tuples and deletes none
compute_object_role_permissions_add_only(s, roles) ==
    LET updates == [R \in roles |-> needed_cache_updates(s, R)]
        to_add == UNION {updates[R].to_add : R \in roles}
    IN [s EXCEPT !.evaluations = @ \cup to_add,
                 !.log = Append(@, "compute_object_role_permissions")]

compute_object_role_permissions(s, roles) ==
    LET updates == [R \in roles |-> needed_cache_updates(s, R)]
        to_add == UNION {updates[R].to_add : R \in roles}
        to_delete == UNION {updates[R].to_delete : R \in roles}
    IN [s EXCEPT !.evaluations = (@ \cup to_add) \ to_delete,
                 !.log = Append(@, "compute_object_role_permissions")]

----------------------------------------------------------------------------
(* Team membership: caching.all_team_parents, compute_team_member_roles *)

MinOf(S) == CHOOSE x \in S : \A y \in S : x <= y

\* all_team_parents(team_id, team_team_parents, seen).  seen is the caller's own
\* parent_team_ids at the time of the call.  The call is a function of (team_id, seen):
\* a call that is reached again while it is still on the call stack (active) recurses
\* without end, which Python ends with RecursionError; err reports that outcome.
RECURSIVE all_team_parents(_, _, _, _)
RECURSIVE all_team_parents_loop(_, _, _, _, _, _)
all_team_parents(team_id, team_team_parents, seen, active) ==
    IF <<team_id, seen>> \in active THEN [err |-> TRUE, ids |-> {}]
    ELSE all_team_parents_loop(team_id, team_team_parents, seen,
                               IF team_id \in DOMAIN team_team_parents
                               THEN team_team_parents[team_id] ELSE {},
                               {}, active \cup {<<team_id, seen>>})

all_team_parents_loop(team_id, team_team_parents, seen, todo, parent_team_ids, active) ==
    IF todo = {} THEN [err |-> FALSE, ids |-> parent_team_ids]
    ELSE LET parent == MinOf(todo)
         IN IF parent \in seen
            THEN all_team_parents_loop(team_id, team_team_parents, seen, todo \ {parent},
                                       parent_team_ids, active)
            ELSE LET sub == all_team_parents(parent, team_team_parents,
                                             parent_team_ids \cup {parent}, active)
                 IN IF sub.err THEN sub
                    ELSE all_team_parents_loop(team_id, team_team_parents, seen, todo \ {parent},
                                               parent_team_ids \cup {parent} \cup sub.ids, active)

HasTeamPerm(s, rd) == team_permission \in s.permissions[rd]

org_team_mapping(s, org) == {t[2] : t \in {r \in ObjectsOf(s, "team") : s.parent_id[r] = org}}

\* the teams an object role with member_team gives direct membership of
MemberTargets(s, R) ==
    IF R.content_type = "team" THEN {R.object_id}
    ELSE IF R.content_type = "organization" THEN org_team_mapping(s, R.object_id)
    ELSE {}

MemberObjectRoles(s) == {R \in s.object_roles : HasTeamPerm(s, R.role_definition)}

direct_member_roles(s) ==
    LET keys == UNION {MemberTargets(s, R) : R \in MemberObjectRoles(s)}
    IN [t \in keys |-> {R \in MemberObjectRoles(s) : t \in MemberTargets(s, R)}]

team_team_parents(s) ==
    LET withTeams == {R \in MemberObjectRoles(s) : RoleTeams(s, R) # {}}
        keys == UNION {MemberTargets(s, R) : R \in withTeams}
    IN [t \in keys |-> UNION {RoleTeams(s, R) : R \in {x \in withTeams : t \in MemberTargets(s, x)}}]

\* returns the store with provides_teams recomputed for every team, or err
compute_team_member_roles(s) ==
    LET direct == direct_member_roles(s)
        parents == team_team_parents(s)
        closure == [t \in DOMAIN direct |-> all_team_parents(t, parents, {}, {})]
        all_member_roles ==
            [t \in DOMAIN direct |->
                direct[t] \cup UNION {direct[p] : p \in closure[t].ids \cap DOMAIN direct}]
    IN IF \E t \in DOMAIN direct : closure[t].err
       THEN [err |-> TRUE, s |-> s]
       ELSE [err |-> FALSE,
             s |-> [s EXCEPT !.provides_teams =
                       UNION {{<<R, t>> : R \in all_member_roles[t]} :
                                 t \in PksOf(s, "team") \cap DOMAIN direct},
                             !.log = Append(@, "compute_team_member_roles")]]

----------------------------------------------------------------------------
(* Triggers for assignments: triggers.py, RoleDefinition.give_or_remove_permission *)

\* an ancestor lookup that finds no role: only the role assigned to is recomputed
\* (used to test the sensitivity of the nested-team property)
team_ancestor_roles_none(s, team) == {}

\* roles that hold a member_team evaluation on the team
team_ancestor_roles(s, team) ==
    {e.role : e \in {x \in s.evaluations :
                        x.codename = team_permission /\ x.object_id = team
                        /\ x.content_type_id = "team"}}

descendent_roles(s, R) == UNION {team_has_roles(s, t) : t \in RoleProvidesTeams(s, R)}

\* the prohibition applied to every actor, users included (used to test the
\* sensitivity of the property of the team assignment switches)
validate_assignment_enabled_any_actor(s, actor, content_type, has_team_perm) ==
    IF ~s.settings.TEAM_TEAM_ALLOWED /\ content_type = "team" THEN "ValidationError"
    ELSE IF ~s.settings.TEAM_ORG_ALLOWED /\ content_type = get_parent_model("team")
    THEN "ValidationError"
    ELSE IF /\ ~s.settings.TEAM_ORG_TEAM_ALLOWED
            /\ content_type = get_parent_model("team") /\ has_team_perm
    THEN "ValidationError"
    ELSE ""

\* validate_assignment_enabled: "" when the assignment is allowed
validate_assignment_enabled(s, actor, content_type, has_team_perm) ==
    IF /\ s.settings.TEAM_TEAM_ALLOWED /\ s.settings.TEAM_ORG_ALLOWED
       /\ s.settings.TEAM_ORG_TEAM_ALLOWED
    THEN ""
    ELSE IF actor[1] # "team" THEN ""
    ELSE IF ~s.settings.TEAM_TEAM_ALLOWED /\ content_type = "team" THEN "ValidationError"
    ELSE IF ~s.settings.TEAM_ORG_ALLOWED /\ content_type = get_parent_model("team")
    THEN "ValidationError"
    ELSE IF /\ ~s.settings.TEAM_ORG_TEAM_ALLOWED
            /\ content_type = get_parent_model("team") /\ has_team_perm
    THEN "ValidationError"
    ELSE ""

\* the check of the actor alone (used to test the sensitivity of the type check)
validate_assignment_actor_only(s, rd, actor, obj) ==
    IF actor[1] \notin {"user", "team"} THEN "ValidationError" ELSE ""

\* validate_assignment: "" when the actor is a user or a team and the role definition is
\* of the type of the object
validate_assignment(s, rd, actor, obj) ==
    IF actor[1] \notin {"user", "team"} THEN "ValidationError"
    ELSE IF obj[1] # s.content_types[rd] THEN "ValidationError"
    ELSE ""

\* an actor is <<"user", name>> or <<"team", pk>>
needed_updates_on_assignment(s, rd, actor, R, created, giving) ==
    LET has_team_perm == HasTeamPerm(s, rd)
        is_team == actor[1] # "user"
        changes_team_owners == is_team
        unused == (~giving) /\ RoleUsers(s, R) = {} /\ RoleTeams(s, R) = {}
        u1 == IF created THEN {R} ELSE {}
        u2 == IF is_team
              THEN u1 \cup team_ancestor_roles(s, actor[2])
                      \cup (IF ~giving THEN descendent_roles(s, R) ELSE {})
              ELSE u1
        u3 == IF unused THEN u2 \ {R} ELSE u2
        u4 == IF (has_team_perm /\ created) \/ (giving /\ changes_team_owners)
              THEN u3 \cup descendent_roles(s, R) ELSE u3
    IN [recompute_teams |-> has_team_perm /\ (created \/ unused \/ changes_team_owners),
        to_update |-> u4]

\* the two recomputations in the other order (used to test the sensitivity of the
\* ordering property)
update_after_assignment_roles_first(s, update_teams, to_update) ==
    LET done == compute_object_role_permissions(s, to_update)
        teams == IF update_teams THEN compute_team_member_roles(done)
                 ELSE [err |-> FALSE, s |-> done]
    IN teams

update_after_assignment(s, update_teams, to_update) ==
    LET teams == IF update_teams THEN compute_team_member_roles(s) ELSE [err |-> FALSE, s |-> s]
    IN IF teams.err THEN teams
       ELSE [err |-> FALSE, s |-> compute_object_role_permissions(teams.s, to_update)]

\* the call passes giving=True to needed_updates_on_assignment whatever its own giving is
GivingPassedToTrigger(giving) == TRUE

\* returns [err, s]; err is "" or the exception raised
give_or_remove_permission(s, rd, actor, obj, giving) ==
    LET R == ObjectRole(rd, obj[1], obj[2])
        created == R \notin s.object_roles
        s1 == [s EXCEPT !.object_roles = @ \cup {R}]
        needed == needed_updates_on_assignment(s1, rd, actor, R, created,
                                               GivingPassedToTrigger(giving))
        s2 == IF actor[1] = "user"
              THEN [s1 EXCEPT !.user_assignments =
                       IF giving THEN @ \cup {<<R, actor[2]>>} ELSE @ \ {<<R, actor[2]>>}]
              ELSE [s1 EXCEPT !.team_assignments =
                       IF giving THEN @ \cup {<<R, actor[2]>>} ELSE @ \ {<<R, actor[2]>>}]
        unused == (~giving) /\ RoleUsers(s2, R) = {} /\ RoleTeams(s2, R) = {}
        s3 == IF unused THEN DeleteObjectRoles(s2, {R}) ELSE s2
        to_update == IF unused THEN needed.to_update \ {R} ELSE needed.to_update
        done == update_after_assignment(s3, needed.recompute_teams, to_update)
    IN IF validate_assignment(s, rd, actor, obj) # "" THEN [err |-> "ValidationError", s |-> s]
       ELSE IF created /\ ~giving THEN [err |-> "", s |-> s]
       ELSE IF validate_assignment_enabled(s1, actor, obj[1], HasTeamPerm(s1, rd)) # ""
       THEN \* raised inside needed_updates_on_assignment, after the object role was created
            [err |-> "ValidationError", s |-> s1]
       ELSE IF done.err THEN [err |-> "RecursionError", s |-> s]
       ELSE [err |-> "", s |-> done.s]

give_permission(s, rd, actor, obj) == give_or_remove_permission(s, rd, actor, obj, TRUE)
remove_permission(s, rd, actor, obj) == give_or_remove_permission(s, rd, actor, obj, FALSE)

----------------------------------------------------------------------------
(* Signals of registered resources: post_init, post_save, pre_delete, post_delete *)

\* a model instance as the constructor or a query returns it; set_original_parent
\* (post_init) records the parent the instance was initialised with
set_original_parent(model, pk, parent) ==
    [model |-> model, pk |-> pk, parent_id |-> parent,
     original_parent_id |-> IF get_parent_fd_name(model) = "None" THEN 0 ELSE parent]

post_save_update_obj_permissions(s, inst) ==
    LET parent_ct == get_parent_model(inst.model)
        new_roles == IF inst.parent_id # 0 THEN RolesOn(s, parent_ct, inst.parent_id) ELSE {}
        old_roles == IF inst.original_parent_id # 0
                     THEN RolesOn(s, parent_ct, inst.original_parent_id) ELSE {}
        ancestors == {R \in s.object_roles :
                         \E t \in RoleProvidesTeams(s, R) :
                             team_has_roles(s, t) \cap (new_roles \cup old_roles) # {}}
        to_update == new_roles \cup old_roles \cup ancestors
        teams == IF inst.model = "team" THEN compute_team_member_roles(s)
                 ELSE [err |-> FALSE, s |-> s]
    IN IF teams.err THEN teams
       ELSE IF to_update # {}
       THEN [err |-> FALSE, s |-> compute_object_role_permissions(teams.s, to_update)]
       ELSE teams

recompute_object_role_permissions(s, inst, created) ==
    IF get_parent_fd_name(inst.model) = "None" THEN [err |-> FALSE, s |-> s]
    ELSE IF created THEN post_save_update_obj_permissions(s, inst)
    ELSE IF inst.original_parent_id # inst.parent_id THEN post_save_update_obj_permissions(s, inst)
    ELSE [err |-> FALSE, s |-> s]

\* Model.save(): write the row, then the post_save signal
save(s, inst, created) ==
    LET r == Resource(inst.model, inst.pk)
        s1 == [s EXCEPT !.parent_id =
                  [x \in DOMAIN s.parent_id \cup {r} |->
                      IF x = r THEN inst.parent_id ELSE s.parent_id[x]]]
        done == recompute_object_role_permissions(s1, inst, created)
    IN IF done.err THEN [err |-> "RecursionError", s |-> s] ELSE [err |-> "", s |-> done.s]

\* team_pre_delete stashes the member roles of a team before its row is deleted
team_pre_delete(s, r) == IF r[1] = "team" THEN team_member_roles(s, r[2]) ELSE {}

\* the row and every row that references it by a cascading foreign key
DeleteRow(s, r) ==
    LET s1 == [s EXCEPT !.parent_id = [x \in DOMAIN s.parent_id \ {r} |-> s.parent_id[x]]]
    IN IF r[1] = "team"
       THEN [s1 EXCEPT !.team_assignments = {a \in @ : a[2] # r[2]},
                       !.provides_teams = {a \in @ : a[2] # r[2]},
                       !.singleton_teams = {a \in @ : a[2] # r[2]}]
       ELSE s1

\* triggers.remove_object_roles (post_delete)
remove_object_roles(s, r, stashed_member_roles) ==
    LET indirectly_affected_roles ==
            team_ancestor_roles(s, r[2])
            \cup UNION {descendent_roles(s, team_role) : team_role \in stashed_member_roles}
        teams == IF r[1] = "team" THEN compute_team_member_roles(s) ELSE [err |-> FALSE, s |-> s]
        s1 == IF r[1] = "team"
              THEN compute_object_role_permissions(teams.s, indirectly_affected_roles)
              ELSE s
    IN IF teams.err THEN teams
       ELSE [err |-> FALSE, s |-> DeleteObjectRoles(s1, RolesOn(s1, r[1], r[2]))]

\* Model.delete() of a registered resource without child rows
delete(s, r) ==
    LET stashed == team_pre_delete(s, r)
        done == remove_object_roles(DeleteRow(s, r), r, stashed)
    IN IF done.err THEN [err |-> "RecursionError", s |-> s] ELSE [err |-> "", s |-> done.s]

\* User.delete(): the user is not a registered resource, only the cascade acts
delete_user(s, u) ==
    [s EXCEPT !.users = @ \ {u},
              !.user_flags = {f \in @ : f[1] # u},
              !.user_assignments = {a \in @ : a[2] # u},
              !.singleton_users = {a \in @ : a[2] # u}]

----------------------------------------------------------------------------
(* Global roles and the evaluator: role_definition.py, evaluations.py, evaluation.py *)

\* the rows of a global assignment table for a role definition and an actor
global_rows(table, rd, pk) == {x \in table : x[1] = rd /\ x[2] = pk}

\* cls.objects.create(**kwargs): a row with the first free id
create_global_row(table, rd, pk) ==
    table \cup {<<rd, pk, CHOOSE i \in 1..(Cardinality(table) + 1) :
                             \A x \in table : x[3] # i>>}

\* cls.objects.filter(**kwargs).first() followed by assignment.delete()
delete_first_global_row(table, rd, pk) ==
    LET rows == global_rows(table, rd, pk)
    IN IF rows = {} THEN table
       ELSE table \ {CHOOSE x \in rows : \A y \in rows : x[3] <= y[3]}

\* the checks of content type and settings that precede the query; "" when they pass
global_permission_error(s, rd, actor) ==
    IF s.content_types[rd] # "None" THEN "RuntimeError"
    ELSE IF actor[1] = "user" /\ ~s.settings.ALLOW_SINGLETON_USER_ROLES THEN "ValidationError"
    ELSE IF actor[1] # "user" /\ ~s.settings.ALLOW_SINGLETON_TEAM_ROLES THEN "ValidationError"
    ELSE ""

global_table(s, actor) == IF actor[1] = "user" THEN s.singleton_users ELSE s.singleton_teams

with_global_table(s, actor, table) ==
    IF actor[1] = "user" THEN [s EXCEPT !.singleton_users = table]
    ELSE [s EXCEPT !.singleton_teams = table]

\* a global grant that also empties the evaluation cache (used to test the sensitivity
\* of the frame property of global grants)
give_or_remove_global_permission_clearing(s, rd, actor, giving) ==
    IF s.content_types[rd] # "None" THEN [err |-> "RuntimeError", s |-> s]
    ELSE LET table == global_table(s, actor)
         IN [err |-> "",
             s |-> [with_global_table(s, actor,
                        IF giving THEN create_global_row(table, rd, actor[2])
                        ELSE delete_first_global_row(table, rd, actor[2]))
                    EXCEPT !.evaluations = {}]]

\* RoleDefinition.give_or_remove_global_permission, run without interruption
\* get_or_create: get returns the row, raises MultipleObjectsReturned for several rows,
\* and for none the row is created
give_or_remove_global_permission(s, rd, actor, giving) ==
    LET error == global_permission_error(s, rd, actor)
        table == global_table(s, actor)
        rows == global_rows(table, rd, actor[2])
    IN IF error # "" THEN [err |-> error, s |-> s]
       ELSE IF ~giving
       THEN [err |-> "", s |-> with_global_table(s, actor, delete_first_global_row(table, rd, actor[2]))]
       ELSE IF Cardinality(rows) > 1 THEN [err |-> "MultipleObjectsReturned", s |-> s]
       ELSE IF rows # {} THEN [err |-> "", s |-> s]
       ELSE [err |-> "", s |-> with_global_table(s, actor, create_global_row(table, rd, actor[2]))]

\* the first half of a give_global_permission call that another call may interleave
\* with: the checks and the get of get_or_create, which finds no row
get_global_assignment(s, call, rd, actor) ==
    LET error == global_permission_error(s, rd, actor)
        rows == global_rows(global_table(s, actor), rd, actor[2])
    IN IF error # "" THEN [err |-> error, s |-> s]
       ELSE IF Cardinality(rows) > 1 THEN [err |-> "MultipleObjectsReturned", s |-> s]
       ELSE IF rows # {} THEN [err |-> "", s |-> s]
       ELSE [err |-> "",
             s |-> [s EXCEPT !.pending = @ \cup {[call |-> call, rd |-> rd, actor |-> actor]}]]

\* the second half: the create of get_or_create; the unique constraint on
\* (user, object_role) does not compare rows whose object_role is NULL
create_global_assignment(s, c) ==
    [err |-> "",
     s |-> [with_global_table(s, c.actor, create_global_row(global_table(s, c.actor), c.rd, c.actor[2]))
            EXCEPT !.pending = @ \ {c}]]

\* Meta.permissions and Meta.default_permissions of the registered models
meta_permissions(model) ==
    CASE model = "team" -> {Codename("member", "team")}
      [] model = "inventory" -> {Codename("update", "inventory")}
      [] OTHER -> {}

default_permissions(model) == {"add", "change", "delete", "view"}

\* a codename as a caller writes it: <<action, model>>, or <<action, "">> for the bare
\* action (no "_" in the string)
\* returns [err, name]: name is the full codename, err the exception raised for a
\* codename that is not valid for the model
validate_codename_for_model(codename, model) ==
    LET name == IF codename[2] = "" THEN Codename(codename[1], model) ELSE codename
    IN IF name[1] = "add"
       THEN IF model # "organization" THEN [err |-> "RuntimeError", name |-> name]
            ELSE [err |-> "", name |-> name]
       ELSE IF name \notin meta_permissions(model) /\ name[1] \notin default_permissions(model)
            THEN [err |-> "RuntimeError", name |-> name]
            ELSE [err |-> "", name |-> name]

\* settings.ROLE_BYPASS_SUPERUSER_FLAGS and settings.ROLE_BYPASS_ACTION_FLAGS
ROLE_BYPASS_SUPERUSER_FLAGS == {"is_superuser"}
ROLE_BYPASS_ACTION_FLAGS == {<<"view", "is_system_auditor">>}

\* codename.startswith(action): the action part is the prefix of the written codename
\* (no action of the catalog is a prefix of another)
startswith(codename, action) == codename[1] = action

\* a bypass that forgets the action an action flag is for
has_super_permission_any_flag(s, user, codename) ==
    \E f \in ROLE_BYPASS_SUPERUSER_FLAGS \cup {af[2] : af \in ROLE_BYPASS_ACTION_FLAGS} :
        <<user, f>> \in s.user_flags

\* the codename is passed as the caller wrote it
has_super_permission(s, user, codename) ==
    \/ \E super_flag \in ROLE_BYPASS_SUPERUSER_FLAGS : <<user, super_flag>> \in s.user_flags
    \/ \E af \in ROLE_BYPASS_ACTION_FLAGS :
          startswith(codename, af[1]) /\ <<user, af[2]>> \in s.user_flags

\* the global roles of the user alone, without the teams (used to test the sensitivity
\* of the global role evaluation property)
singleton_permissions_user_only(s, user) ==
    UNION {s.permissions[a[1]] : a \in {x \in s.singleton_users : x[2] = user}}

\* bound_singleton_permissions: permissions of the global roles of the user and of
\* the teams that have a member role among the object roles the user holds
singleton_permissions(s, user) ==
    LET all_user_teams == {t \in PksOf(s, "team") :
                              team_member_roles(s, t) \cap user_has_roles(s, user) # {}}
        user_rds == {a[1] : a \in {x \in s.singleton_users : x[2] = user}}
        team_rds == {a[1] : a \in {x \in s.singleton_teams : x[2] \in all_user_teams}}
    IN UNION {s.permissions[rd] : rd \in user_rds \cup team_rds}

\* RoleEvaluation.has_obj_perm
has_obj_perm(s, user, obj, codename) ==
    \E e \in s.evaluations :
        /\ e.role \in user_has_roles(s, user)
        /\ e.content_type_id = obj[1]
        /\ e.object_id = obj[2]
        /\ e.codename = codename

\* RoleEvaluation.accessible_ids / accessible_objects for a user
accessible_ids(s, model, user, codename) ==
    {e.object_id : e \in {x \in s.evaluations :
                             /\ x.role \in user_has_roles(s, user)
                             /\ x.codename = codename
                             /\ x.content_type_id = model}}

accessible_objects(s, model, user, codename) ==
    PksOf(s, model) \cap accessible_ids(s, model, user, codename)

\* user.has_obj_perm(obj, codename); returns [err, result]
bound_has_obj_perm(s, user, obj, codename) ==
    LET full_codename == validate_codename_for_model(codename, obj[1])
    IN IF full_codename.err # "" THEN [err |-> full_codename.err, result |-> FALSE]
       ELSE [err |-> "",
             result |-> \/ has_super_permission(s, user, codename)
                        \/ full_codename.name \in singleton_permissions(s, user)
                        \/ has_obj_perm(s, user, obj, full_codename.name)]

----------------------------------------------------------------------------
(* Actions *)

Commit(s) ==
    /\ parent_id' = s.parent_id
    /\ users' = s.users
    /\ user_flags' = s.user_flags
    /\ permissions' = s.permissions
    /\ content_types' = s.content_types
    /\ settings' = s.settings
    /\ object_roles' = s.object_roles
    /\ user_assignments' = s.user_assignments
    /\ team_assignments' = s.team_assignments
    /\ provides_teams' = s.provides_teams
    /\ evaluations' = s.evaluations
    /\ singleton_users' = s.singleton_users
    /\ singleton_teams' = s.singleton_teams
    /\ pending' = s.pending
    /\ registry' = s.registry

Apply(res) ==
    /\ Commit(res.s)
    /\ last' = res.err

ActorExists(s, actor) ==
    IF actor[1] = "user" THEN actor[2] \in s.users ELSE Resource("team", actor[2]) \in DOMAIN s.parent_id

NumAssignments(s) == Cardinality(s.user_assignments) + Cardinality(s.team_assignments)

Holds(s, rd, actor, obj) ==
    LET R == ObjectRole(rd, obj[1], obj[2])
    IN IF actor[1] = "user" THEN <<R, actor[2]>> \in s.user_assignments
       ELSE <<R, actor[2]>> \in s.team_assignments

\* the calls made on the store: an existing actor, an existing resource and a role
\* definition of the resource's type
Callable(s, rd, actor, obj) ==
    /\ ActorExists(s, actor)
    /\ obj \in DOMAIN s.parent_id
    /\ obj[1] = s.content_types[rd]

\* rd.give_permission(actor, obj)
GivePermission(rd, actor, obj) ==
    /\ Callable(DB, rd, actor, obj)
    /\ Apply(give_permission(DB, rd, actor, obj))

\* rd.remove_permission(actor, obj)
RemovePermission(rd, actor, obj) ==
    /\ Callable(DB, rd, actor, obj)
    /\ Apply(remove_permission(DB, rd, actor, obj))

\* Model.objects.create(...) of a registered child resource; the database hands out
\* the smallest free pk
CreateResource(model, pk, parent) ==
    /\ Resource(model, pk) \notin DOMAIN parent_id
    /\ \A k \in 1..(pk - 1) : Resource(model, k) \in DOMAIN parent_id
    /\ Resource(get_parent_model(model), parent) \in DOMAIN parent_id
    /\ Apply(save(DB, set_original_parent(model, pk, parent), TRUE))

\* obj = Model.objects.get(pk=...); obj.<parent> = parent; obj.save()
MoveResource(r, parent) ==
    /\ r \in DOMAIN parent_id
    /\ parent_id[r] # parent
    /\ Resource(get_parent_model(r[1]), parent) \in DOMAIN parent_id
    /\ Apply(save(DB, [set_original_parent(r[1], r[2], parent_id[r]) EXCEPT !.parent_id = parent],
                  FALSE))

\* obj.delete() of a resource that has no child rows
DeleteResource(r) ==
    /\ r \in DOMAIN parent_id
    /\ \A c \in DOMAIN parent_id : ~(get_parent_model(c[1]) = r[1] /\ parent_id[c] = r[2])
    /\ Apply(delete(DB, r))

\* user.delete()
DeleteUser(u) ==
    /\ u \in users
    /\ Commit(delete_user(DB, u))
    /\ last' = ""

\* the store with the given resources (resource -> parent pk) and role definitions,
\* before any role is given
InitStoreWith(resources, perms, django_settings) ==
    /\ parent_id = resources
    /\ users = Users
    /\ user_flags = {}
    /\ permissions = perms
    /\ content_types = [rd \in DOMAIN perms |-> rd_content_type[rd]]
    /\ settings = django_settings
    /\ object_roles = {}
    /\ user_assignments = {}
    /\ team_assignments = {}
    /\ provides_teams = {}
    /\ evaluations = {}
    /\ singleton_users = {}
    /\ singleton_teams = {}
    /\ pending = {}
    /\ registry = StartedRegistry
    /\ last = ""

InitStore(resources, perms) == InitStoreWith(resources, perms, DefaultSettings)

Organizations == [r \in {Resource("organization", o) : o \in OrgIds} |-> 0]

----------------------------------------------------------------------------
(* Spec: organizations, one team type and inventories; every operation on them *)

Init ==
    \E org_permissions \in {OrgAdminPermissions, OrgMemberPermissions} :
        InitStore(Organizations, InitialPermissions(org_permissions))

Actors == {<<"user", u>> : u \in Users} \cup {<<"team", t>> : t \in TeamIds}
Targets ==
    {Resource("organization", o) : o \in OrgIds}
    \cup {Resource("team", t) : t \in TeamIds}
    \cup {Resource("inventory", i) : i \in InvIds}
Children == {Resource("team", t) : t \in TeamIds} \cup {Resource("inventory", i) : i \in InvIds}

Next ==
    \/ \E rd \in RoleDefs, a \in Actors, o \in Targets :
          /\ Holds(DB, rd, a, o) \/ NumAssignments(DB) < MaxAssignments
          /\ GivePermission(rd, a, o)
    \/ \E rd \in RoleDefs, a \in Actors, o \in Targets : RemovePermission(rd, a, o)
    \/ \E r \in Children, o \in OrgIds : CreateResource(r[1], r[2], o)
    \/ \E r \in Children, o \in OrgIds : MoveResource(r, o)
    \/ \E r \in Children : DeleteResource(r)
    \/ \E u \in Users : DeleteUser(u)

Spec == Init /\ [][Next]_vars

----------------------------------------------------------------------------
(* SpecEval: the read path over a fixture of one organization, team and inventory, *)
(* with user flags and global roles                                                *)

\* rd.give_global_permission(actor) / rd.remove_global_permission(actor)
GiveGlobalPermission(rd, actor) ==
    /\ ActorExists(DB, actor)
    /\ Apply(give_or_remove_global_permission(DB, rd, actor, TRUE))

RemoveGlobalPermission(rd, actor) ==
    /\ ActorExists(DB, actor)
    /\ Apply(give_or_remove_global_permission(DB, rd, actor, FALSE))

\* user.<flag> = value; user.save()
SetFlag(u, flag, value) ==
    /\ u \in users
    /\ (<<u, flag>> \in user_flags) # value
    /\ user_flags' = IF value THEN user_flags \cup {<<u, flag>>} ELSE user_flags \ {<<u, flag>>}
    /\ last' = ""
    /\ UNCHANGED <<parent_id, users, permissions, content_types, settings, object_roles, user_assignments,
                   team_assignments, provides_teams, evaluations, singleton_users,
                   singleton_teams, pending, registry>>

Flags == ROLE_BYPASS_SUPERUSER_FLAGS \cup {af[2] : af \in ROLE_BYPASS_ACTION_FLAGS}

\* organization, team and inventory fixtures of conftest.py
Fixture ==
    [r \in {Resource("organization", 1), Resource("team", 1), Resource("inventory", 1)} |->
        IF r[1] = "organization" THEN 0 ELSE 1]

EvalTargets == {Resource("team", 1), Resource("inventory", 1)}
EvalActors == {<<"user", u>> : u \in Users} \cup {<<"team", 1>>}

InitEval == InitStore(Fixture, InitialPermissions(OrgAdminPermissions))

NextEval ==
    \/ \E rd \in {"team-member", "inv-admin"}, a \in EvalActors, o \in EvalTargets :
          GivePermission(rd, a, o)
    \/ \E rd \in {"team-member", "inv-admin"}, a \in EvalActors, o \in EvalTargets :
          RemovePermission(rd, a, o)
    \/ \E rd \in GlobalRoleDefs, a \in EvalActors : GiveGlobalPermission(rd, a)
    \/ \E rd \in GlobalRoleDefs, a \in EvalActors : RemoveGlobalPermission(rd, a)
    \/ \E u \in Users, f \in Flags, v \in BOOLEAN : SetFlag(u, f, v)

SpecEval == InitEval /\ [][NextEval]_vars

----------------------------------------------------------------------------
(* SpecGrand: namespaces under organizations and collection imports under namespaces *)

GrandChildren ==
    {Resource("namespace", n) : n \in NamespaceIds}
    \cup {Resource("collectionimport", c) : c \in ImportIds}

ParentIds(model) == IF model = "collectionimport" THEN NamespaceIds ELSE OrgIds

InitGrand == InitStore(Organizations, InitialPermissions(OrgNamespacePermissions))

NextGrand ==
    \/ \E u \in Users, o \in OrgIds :
          GivePermission("org-role", <<"user", u>>, Resource("organization", o))
    \/ \E u \in Users, o \in OrgIds :
          RemovePermission("org-role", <<"user", u>>, Resource("organization", o))
    \/ \E r \in GrandChildren : \E p \in ParentIds(r[1]) : CreateResource(r[1], r[2], p)
    \/ \E r \in GrandChildren : \E p \in ParentIds(r[1]) : MoveResource(r, p)
    \/ \E r \in GrandChildren : DeleteResource(r)

SpecGrand == InitGrand /\ [][NextGrand]_vars

----------------------------------------------------------------------------
(* SpecCycle: member roles given between the teams of one organization *)
(* (test_teams_with_loops)                                              *)

CycleTeamIds == 1..CycleTeams

TeamFixture(teams) ==
    [r \in {Resource("organization", 1), Resource("inventory", 1)}
           \cup {Resource("team", k) : k \in teams} |->
        IF r[1] = "organization" THEN 0 ELSE 1]

InitCycle == InitStore(TeamFixture(CycleTeamIds), InitialPermissions(OrgAdminPermissions))

NextCycle ==
    \/ \E a \in CycleTeamIds, b \in CycleTeamIds :
          GivePermission("team-member", <<"team", a>>, Resource("team", b))
    \/ \E u \in Users : GivePermission("team-member", <<"user", u>>, Resource("team", 1))
    \/ \E a \in CycleTeamIds : GivePermission("inv-admin", <<"team", a>>, Resource("inventory", 1))
    \/ \E a \in CycleTeamIds : DeleteResource(Resource("team", a))
    \/ \E a \in CycleTeamIds : CreateResource("team", a, 1)

SpecCycle == InitCycle /\ [][NextCycle]_vars

----------------------------------------------------------------------------
(* SpecChain: a chain of teams, each the member of the next (test_five_nested_teams) *)

ChainTeamIds == 1..ChainLen
ChainLinks == {<<k, k + 1>> : k \in 1..(ChainLen - 1)}

InitChain == InitStore(TeamFixture(ChainTeamIds), InitialPermissions(OrgAdminPermissions))

NextChain ==
    \/ \E l \in ChainLinks :
          GivePermission("team-member", <<"team", l[1]>>, Resource("team", l[2]))
    \/ \E l \in ChainLinks :
          RemovePermission("team-member", <<"team", l[1]>>, Resource("team", l[2]))
    \/ \E u \in Users : GivePermission("team-member", <<"user", u>>, Resource("team", 1))
    \/ \E u \in Users : RemovePermission("team-member", <<"user", u>>, Resource("team", 1))
    \/ GivePermission("inv-admin", <<"team", ChainLen>>, Resource("inventory", 1))
    \/ RemovePermission("inv-admin", <<"team", ChainLen>>, Resource("inventory", 1))
    \/ \E a \in ChainTeamIds : DeleteResource(Resource("team", a))
    \/ \E a \in ChainTeamIds : CreateResource("team", a, 1)

SpecChain == InitChain /\ [][NextChain]_vars

----------------------------------------------------------------------------
(* What the assignments and the resource graph justify *)

\* the chain of parents of a resource that exist in the store
RECURSIVE IsBelow(_, _, _)
IsBelow(s, o, anc) ==
    /\ o \in DOMAIN s.parent_id
    /\ o[1] \in DOMAIN parent_fields
    /\ LET p == Resource(parent_fields[o[1]], s.parent_id[o])
       IN p = anc \/ IsBelow(s, p, anc)

\* the rules by which a permission of the definition of an object role on (ct, pk)
\* confers codename on the resource target
Confers(s, R, codename, target) ==
    LET on == Resource(R.content_type, R.object_id)
    IN \/ codename[2] = R.content_type /\ target = on
       \/ is_add_perm(codename) /\ target = on
       \/ ~is_add_perm(codename) /\ target[1] = codename[2] /\ IsBelow(s, target, on)

\* the object roles whose definitions count for R: R itself and the roles held by a
\* team R grants membership of
GrantingRoles(s, R) == {R} \cup UNION {team_has_roles(s, t) : t \in RoleProvidesTeams(s, R)}

Justified(s, e) ==
    /\ Resource(e.content_type_id, e.object_id) \in DOMAIN s.parent_id
    /\ \E G \in GrantingRoles(s, e.role) :
          /\ e.codename \in s.permissions[G.role_definition]
          /\ Confers(s, G, e.codename, Resource(e.content_type_id, e.object_id))

\* the tuples the rules imply for R in the current resource graph
Implied(s, R) ==
    UNION {{<<c, o[1], o[2]>> : o \in {x \in DOMAIN s.parent_id : Confers(s, G, c, x)}} :
              <<G, c>> \in UNION {{<<G2, c2>> : c2 \in s.permissions[G2.role_definition]} :
                                    G2 \in GrantingRoles(s, R)}}

EvaluationKeys(s, R) == {<<e.codename, e.content_type_id, e.object_id>> : e \in RoleEvaluations(s, R)}

\* C1: every persisted evaluation tuple is justified: its resource exists and its
\* codename is conferred on it by the definition of its role or of a role held by a
\* team that the role grants membership of
C1_CacheSound == \A e \in evaluations : Justified(DB, e)

\* C2: for every object role, every tuple the materializer rules imply for the current
\* resource graph is present
C2_CacheComplete == \A R \in object_roles : Implied(DB, R) \subseteq EvaluationKeys(DB, R)

\* C4: no object role exists whose users set and teams set are both empty
C4_NoUnusedObjectRole ==
    \A R \in object_roles : RoleUsers(DB, R) # {} \/ RoleTeams(DB, R) # {}

\* two stores hold the same rows
SameRows(a, b) == [a EXCEPT !.log = << >>] = [b EXCEPT !.log = << >>]

\* C5: give_permission(a, o) followed by remove_permission(a, o), for an actor that
\* does not hold rd on o, leaves the set of evaluation tuples as it was before
C5_GiveRemoveRoundTrip ==
    \A rd \in RoleDefs, a \in Actors, o \in Targets :
        (Callable(DB, rd, a, o) /\ ~Holds(DB, rd, a, o)) =>
            LET given == give_permission(DB, rd, a, o)
                removed == remove_permission(given.s, rd, a, o)
            IN given.err = "" => removed.s.evaluations = evaluations

\* C6: a second give_permission(actor, resource) raises nothing and leaves object roles,
\* assignments, provides_teams and evaluation tuples as the first call left them, with
\* the object role and the actor's assignment present
C6_GiveIdempotent ==
    \A rd \in RoleDefs, a \in Actors, o \in Targets :
        Callable(DB, rd, a, o) =>
            LET first == give_permission(DB, rd, a, o)
                second == give_permission(first.s, rd, a, o)
            IN first.err = "" =>
                  /\ second.err = ""
                  /\ SameRows(second.s, first.s)
                  /\ ObjectRole(rd, o[1], o[2]) \in second.s.object_roles
                  /\ Holds(second.s, rd, a, o)

----------------------------------------------------------------------------
(* The evaluator *)

\* codenames as callers write them, full and bare, valid and not
EvalCodes ==
    {<<"change", "">>, <<"change", "inventory">>, <<"view", "">>, <<"view", "inventory">>,
     <<"view", "team">>, <<"member", "">>, <<"member", "team">>, <<"update", "inventory">>,
     <<"add", "">>, <<"add", "inventory">>, <<"execute", "">>}

Normalized(code, obj) == IF code[2] = "" THEN Codename(code[1], obj[1]) ELSE code

\* a code the model of the object accepts: add_* only on an organization, any other
\* action when it is a default action or the code is a permission of the model
ValidCode(code, obj) ==
    LET name == Normalized(code, obj)
    IN IF name[1] = "add" THEN obj[1] = "organization"
       ELSE \/ name[1] \in {"change", "delete", "view"}
            \/ /\ name \in {Codename("member", "team"), Codename("update", "inventory")}
               /\ name[2] = obj[1]

\* the permissions of the global roles given to the user, or to a team whose
\* membership an object role of the user grants
GlobalPermissionSet(u) ==
    UNION {permissions[a[1]] : a \in {x \in singleton_users : x[2] = u}}
    \cup UNION {permissions[a[1]] :
                   a \in {x \in singleton_teams :
                             \E R \in object_roles :
                                 <<R, u>> \in user_assignments /\ <<R, x[2]>> \in provides_teams}}

RuleA(u) == <<u, "is_superuser">> \in user_flags
RuleB(u, code) == code[1] = "view" /\ <<u, "is_system_auditor">> \in user_flags
RuleC(u, obj, code) == Normalized(code, obj) \in GlobalPermissionSet(u)
RuleD(u, obj, code) ==
    \E e \in evaluations :
        /\ <<e.role, u>> \in user_assignments
        /\ <<e.content_type_id, e.object_id>> = obj
        /\ e.codename = Normalized(code, obj)
AnyRule(u, obj, code) == RuleA(u) \/ RuleB(u, code) \/ RuleC(u, obj, code) \/ RuleD(u, obj, code)

----------------------------------------------------------------------------
(* Teams that are members of teams *)

\* C7: the recomputation of team membership finishes for every graph of team
\* memberships: no operation ends in the RecursionError of a search that does not end
C7_ClosureTerminates == last # "RecursionError"

HasInventory(s) ==
    1 \in accessible_objects(s, "inventory", "rando", Codename("change", "inventory"))

\* C8: teams 1 -> 2 -> 3 -> 1 are made members of each other in a cycle, the user is a
\* member of team 1 and team 3 holds the inventory role: the last link of the cycle is
\* given without error and the user has the inventory permission; after team 3 is
\* deleted the user has it no more, nor after a team is created in its place
C8_CycleScenario ==
    (/\ \A a \in {1, 2, 3} : Resource("team", a) \in DOMAIN parent_id
     /\ Holds(DB, "team-member", <<"team", 1>>, Resource("team", 2))
     /\ Holds(DB, "team-member", <<"team", 2>>, Resource("team", 3))
     /\ Holds(DB, "team-member", <<"user", "rando">>, Resource("team", 1))
     /\ Holds(DB, "inv-admin", <<"team", 3>>, Resource("inventory", 1)))
    => LET closed == give_permission(DB, "team-member", <<"team", 3>>, Resource("team", 1))
           deleted == delete(closed.s, Resource("team", 3))
           recreated == save(deleted.s, set_original_parent("team", 3, 1), TRUE)
       IN /\ closed.err = ""
          /\ Holds(closed.s, "team-member", <<"team", 3>>, Resource("team", 1))
          /\ HasInventory(closed.s)
          /\ deleted.err = "" /\ ~HasInventory(deleted.s)
          /\ recreated.err = "" /\ ~HasInventory(recreated.s)

ChainBuilt(s) ==
    /\ \A a \in ChainTeamIds : Resource("team", a) \in DOMAIN s.parent_id
    /\ \A l \in ChainLinks : Holds(s, "team-member", <<"team", l[1]>>, Resource("team", l[2]))
    /\ Holds(s, "team-member", <<"user", "rando">>, Resource("team", 1))
    /\ Holds(s, "inv-admin", <<"team", ChainLen>>, Resource("inventory", 1))

\* C9: when every team of the chain is the member of the next, the user is a member of
\* the first and the last holds the inventory role, the user has the inventory
\* permission; removing any link or deleting any team after the first revokes it, and
\* giving the removed link back restores it
C9_NestedChain ==
    ChainBuilt(DB) =>
        /\ HasInventory(DB)
        /\ \A l \in ChainLinks :
              LET removed == remove_permission(DB, "team-member", <<"team", l[1]>>,
                                               Resource("team", l[2]))
                  given == give_permission(removed.s, "team-member", <<"team", l[1]>>,
                                           Resource("team", l[2]))
              IN /\ removed.err = "" /\ ~HasInventory(removed.s)
                 /\ given.err = "" /\ HasInventory(given.s)
        /\ \A a \in ChainTeamIds \ {1} :
              LET deleted == delete(DB, Resource("team", a))
              IN deleted.err = "" /\ ~HasInventory(deleted.s)

C9_Witness == ChainBuilt(DB) /\ HasInventory(DB) /\ last = ""

----------------------------------------------------------------------------
(* Moving a resource to another parent and back *)

\* C10: a resource is loaded, moved to another parent and saved, moved back and saved
\* through the same in-memory instance: the evaluation tuples are what they were
C10_ReparentRoundTrip ==
    \A r \in DOMAIN parent_id : \A p \in OrgIds :
        (r[1] \in {"team", "inventory"} /\ p # parent_id[r]) =>
            LET loaded == set_original_parent(r[1], r[2], parent_id[r])
                moved == save(DB, [loaded EXCEPT !.parent_id = p], FALSE)
                back == save(moved.s, loaded, FALSE)
            IN moved.err = "" => back.s.evaluations = evaluations

----------------------------------------------------------------------------
(* Moving a resource: who loses and who gains *)

\* the object roles on organization org by which user holds codename, directly or
\* through a team the user is a member of
GrantsOnOrg(s, user, org, codename) ==
    {G \in UNION {GrantingRoles(s, R) : R \in user_has_roles(s, user)} :
        /\ G.content_type = "organization" /\ G.object_id = org
        /\ codename \in s.permissions[G.role_definition]}

\* the object roles by which user holds codename on resource r
GrantsOn(s, user, r, codename) ==
    {G \in UNION {GrantingRoles(s, R) : R \in user_has_roles(s, user)} :
        /\ codename \in s.permissions[G.role_definition]
        /\ Confers(s, G, codename, r)}

ChildCodes(model) == {c \in UNION {permissions[rd] : rd \in RoleDefs} : c[2] = model}

MovedTo(r, p) ==
    save(DB, [set_original_parent(r[1], r[2], parent_id[r]) EXCEPT !.parent_id = p], FALSE)

\* C11: after a child resource is moved from parent P to parent P' and saved, a user
\* whose only grant of a permission of the child's type was a role on P (and who holds
\* no such role on P') does not have it on the child, and a user who holds such a role
\* on P', directly or through team membership, has it
C11_ReparentMovesPermissions ==
    \A r \in DOMAIN parent_id : \A p \in OrgIds :
        (r[1] \in {"team", "inventory"} /\ p # parent_id[r]) =>
            LET moved == MovedTo(r, p)
            IN moved.err = "" =>
                 \A u \in users : \A c \in ChildCodes(r[1]) :
                    LET before == GrantsOn(DB, u, r, c)
                        onNew == GrantsOnOrg(moved.s, u, p, c)
                    IN /\ onNew # {} => has_obj_perm(moved.s, u, r, c)
                       /\ (/\ before # {}
                           /\ \A G \in before : G.content_type = "organization"
                                                  /\ G.object_id = parent_id[r]
                           /\ onNew = {})
                          => ~has_obj_perm(moved.s, u, r, c)

\* a user holds the inventory permission through a role on the organization of the
\* inventory and holds no role on the other organization, another holder does
C11_Witness ==
    \E r \in DOMAIN parent_id : \E p \in OrgIds : \E u \in users : \E c \in ChildCodes(r[1]) :
        /\ r[1] \in {"team", "inventory"} /\ p # parent_id[r]
        /\ MovedTo(r, p).err = ""
        /\ has_obj_perm(DB, u, r, c)
        /\ GrantsOn(DB, u, r, c) # {}
        /\ \A G \in GrantsOn(DB, u, r, c) :
               G.content_type = "organization" /\ G.object_id = parent_id[r]
        /\ GrantsOnOrg(MovedTo(r, p).s, u, p, c) = {}
        /\ ~has_obj_perm(MovedTo(r, p).s, u, r, c)

----------------------------------------------------------------------------
(* Changes of RoleDefinition.permissions: triggers.permissions_changed *)

\* the m2m_changed handler for the post_* actions; s holds the changed permissions.
\* The object roles of the first query carry their prefetched teams__member_roles, read
\* before the team memberships are recomputed; the roles added from descendent_roles
\* read theirs afterwards
permissions_changed(s, rd, action, pk_set) ==
    LET first == {R \in s.object_roles : R.role_definition = rd}
    IN IF first = {} THEN [err |-> FALSE, s |-> s]
       ELSE IF action \in {"post_add", "post_remove"}
       THEN LET member == team_permission \in pk_set
                with_desc == IF member
                             THEN first \cup UNION {descendent_roles(s, R) : R \in first}
                             ELSE first
                teams == IF member THEN compute_team_member_roles(s)
                         ELSE [err |-> FALSE, s |-> s]
                above == UNION {UNION {team_member_roles(IF R \in first THEN s ELSE teams.s, t) :
                                          t \in RoleTeams(s, R)} : R \in with_desc}
            IN IF teams.err THEN teams
               ELSE [err |-> FALSE,
                     s |-> compute_object_role_permissions(teams.s, with_desc \cup above)]
       ELSE LET teams == compute_team_member_roles(s)
            IN IF teams.err THEN teams
               ELSE [err |-> FALSE,
                     s |-> compute_object_role_permissions(teams.s, teams.s.object_roles)]

\* the result of a change made inside the atomic block of the related manager
permissions_result(s, done) ==
    IF done.err THEN [err |-> "RecursionError", s |-> s] ELSE [err |-> "", s |-> done.s]

\* rd.permissions.add(*codenames): the signal carries the codenames that were missing
add_permissions(s, rd, codenames) ==
    permissions_result(s,
        permissions_changed([s EXCEPT !.permissions[rd] = @ \cup codenames], rd, "post_add",
                            codenames \ s.permissions[rd]))

\* rd.permissions.remove(*codenames): the signal carries the codenames that were passed
remove_permissions(s, rd, codenames) ==
    permissions_result(s,
        permissions_changed([s EXCEPT !.permissions[rd] = @ \ codenames], rd, "post_remove",
                            codenames))

\* rd.permissions.clear()
clear_permissions(s, rd) ==
    permissions_result(s,
        permissions_changed([s EXCEPT !.permissions[rd] = {}], rd, "post_clear", {}))

AddPermissions(rd, codenames) == Apply(add_permissions(DB, rd, codenames))

RemovePermissions(rd, codenames) == Apply(remove_permissions(DB, rd, codenames))

ClearPermissions(rd) ==
    /\ permissions[rd] # {}
    /\ Apply(clear_permissions(DB, rd))

----------------------------------------------------------------------------
(* SpecPerms: the fixture of one organization, team and inventory, roles given on *)
(* them, the permissions of the role definitions changed, the inventory deleted   *)
(* and created again                                                              *)

PermissionAtoms == OrgAdminPermissions \cup OrgMemberPermissions

\* the permissions changed by test_change_role_definition_permission and
\* test_change_role_definition_member_permission
ChangedAtoms == {team_permission, Codename("change", "inventory")}

PermsTargets == DOMAIN Fixture

InitPerms == InitStore(Fixture, InitialPermissions(OrgAdminPermissions))

NextPerms ==
    \/ \E rd \in RoleDefs, a \in EvalActors, o \in PermsTargets :
          /\ Holds(DB, rd, a, o) \/ NumAssignments(DB) < MaxAssignments
          /\ GivePermission(rd, a, o)
    \/ \E rd \in RoleDefs, a \in EvalActors, o \in PermsTargets : RemovePermission(rd, a, o)
    \/ \E rd \in RoleDefs, c \in ChangedAtoms : AddPermissions(rd, {c})
    \/ \E rd \in RoleDefs, c \in ChangedAtoms : RemovePermissions(rd, {c})
    \/ \E rd \in RoleDefs : ClearPermissions(rd)
    \/ DeleteResource(Resource("inventory", 1))
    \/ CreateResource("inventory", 1, 1)

SpecPerms == InitPerms /\ [][NextPerms]_vars

\* the cache is what the rules imply, and provides_teams what the recomputation gives
Exact(s) ==
    /\ \A R \in s.object_roles : EvaluationKeys(s, R) = Implied(s, R)
    /\ \A e \in s.evaluations : e.role \in s.object_roles
    /\ compute_team_member_roles(s).s.provides_teams = s.provides_teams

LiveDefs(s) == {R.role_definition : R \in s.object_roles}

\* C12: for a role definition with object roles, adding an absent permission and
\* removing it again, or removing a present permission and adding it back, leaves
\* provides_teams and the evaluation tuples as they were; in between the cache holds
\* exactly what the changed definition confers
C12_PermissionRoundTrip ==
    \A rd \in LiveDefs(DB) : \A c \in PermissionAtoms :
        LET there == IF c \in permissions[rd] THEN remove_permissions(DB, rd, {c})
                     ELSE add_permissions(DB, rd, {c})
            back == IF c \in permissions[rd] THEN add_permissions(there.s, rd, {c})
                    ELSE remove_permissions(there.s, rd, {c})
        IN there.err = "" =>
              /\ back.err = ""
              /\ back.s.provides_teams = provides_teams
              /\ back.s.evaluations = evaluations
              /\ back.s.permissions = permissions
              /\ Exact(there.s)

----------------------------------------------------------------------------
(* Role definitions: validators.validate_permissions_for_model and the manager *)
(* methods get_or_create and create_from_permissions                            *)

\* permission_registry.all_registered_models of the test application, and a model that
\* is not registered
all_registered_models == {"organization", "inventory", "namespace", "team", "collectionimport"}
UnregisteredModels == {"exampleevent"}

\* the rows of the permission table: default and Meta permissions of every model
permission_codenames ==
    UNION {{Codename(a, m) : a \in default_permissions(m)} \cup meta_permissions(m) :
              m \in all_registered_models \cup UnregisteredModels}

system_roles_enabled(s) ==
    s.settings.ALLOW_SINGLETON_USER_ROLES \/ s.settings.ALLOW_SINGLETON_TEAM_ROLES

\* the model a permission is filed under: the parent model for an add permission
\* ("None" when the model has no parent), the model of the permission otherwise
role_model(perm) == IF is_add_perm(perm) THEN get_parent_model(perm[2]) ELSE perm[2]

\* what the first loop of validate_permissions_for_model raises for one permission;
\* "AttributeError" is role_model._meta evaluated for a role_model of None
perm_error(s, perm, content_type) ==
    IF is_add_perm(perm) /\ role_model(perm) = "None" /\ ~system_roles_enabled(s)
    THEN "ValidationError"
    ELSE IF content_type = "None" THEN ""
    ELSE IF role_model(perm) = "None" THEN "AttributeError"
    ELSE IF role_model(perm) # content_type
            /\ perm[2] \notin {c.model : c \in get_child_models(content_type)}
    THEN "ValidationError"
    ELSE ""

\* the check that every model with a permission filed under it has a permission whose
\* codename contains "view" (or, for no model, an add permission)
has_view(perms, cls) ==
    \E perm \in perms :
        /\ role_model(perm) = cls
        /\ perm[1] = "view" \/ (cls = "None" /\ is_add_perm(perm))

\* the validation without the checks made for a global role (used to test the
\* sensitivity of the global role gating property)
validate_permissions_ungated(s, perms, content_type) ==
    LET loop == {perm_error(s, perm, content_type) : perm \in perms} \ {""}
        by_model == {role_model(perm) : perm \in perms}
    IN IF loop # {} THEN loop
       ELSE IF by_model \ (all_registered_models \cup {"None"}) # {} THEN {"ValidationError"}
       ELSE IF \E cls \in by_model : ~has_view(perms, cls) THEN {"ValidationError"}
       ELSE {""}

\* validate_permissions_for_model: the set of outcomes, "" for a pass; the permissions
\* are visited in the order of the caller's list, so the first loop can end with the
\* error of any permission that raises
validate_permissions_for_model(s, perms, content_type) ==
    LET loop == {perm_error(s, perm, content_type) : perm \in perms} \ {""}
        by_model == {role_model(perm) : perm \in perms}
    IN IF content_type = "None" /\ ~system_roles_enabled(s) THEN {"ValidationError"}
       ELSE IF content_type = "None" /\ team_permission \in perms THEN {"ValidationError"}
       ELSE IF loop # {} THEN loop
       ELSE IF by_model \ (all_registered_models \cup {"None"}) # {} THEN {"ValidationError"}
       ELSE IF \E cls \in by_model : ~has_view(perms, cls) THEN {"ValidationError"}
       ELSE {""}

RoleDefinitions(s) == DOMAIN s.permissions

\* RoleDefinition.objects.create(name=..., content_type=...) followed by
\* rd.permissions.add(*perm_list); a new definition has no object role to recompute
create_role_definition(s, perms, name, content_type) ==
    [s EXCEPT !.permissions = [rd \in DOMAIN @ \cup {name} |-> IF rd = name THEN perms ELSE @[rd]],
              !.content_types =
                  [rd \in DOMAIN @ \cup {name} |-> IF rd = name THEN content_type ELSE @[rd]]]

\* RoleDefinitionManager.create_from_permissions: the set of outcomes [err, s]
create_from_permissions(s, perms, name, content_type) ==
    IF perms \ permission_codenames # {} THEN {[err |-> "DoesNotExist", s |-> s]}
    ELSE {IF e # "" THEN [err |-> e, s |-> s]
          ELSE IF name \in RoleDefinitions(s) THEN [err |-> "IntegrityError", s |-> s]
          ELSE [err |-> "", s |-> create_role_definition(s, perms, name, content_type)] :
             e \in validate_permissions_for_model(s, perms, content_type)}

\* a lookup by name in place of the lookup by permissions (used to test the sensitivity
\* of the get_or_create property)
get_or_create_by_name(s, perms, name, content_type) ==
    IF name \in RoleDefinitions(s)
    THEN {[err |-> "", s |-> s, rd |-> name, created |-> FALSE]}
    ELSE {[err |-> o.err, s |-> o.s, rd |-> name, created |-> o.err = ""] :
             o \in create_from_permissions(s, perms, name, content_type)}

\* RoleDefinitionManager.get_or_create: the set of outcomes [err, s, rd, created]; the
\* loop returns the first definition with the same permissions in database order
get_or_create(s, perms, name, content_type) ==
    LET same == {rd \in RoleDefinitions(s) : s.permissions[rd] = perms}
    IN IF perms # {}
       THEN IF same # {}
            THEN {[err |-> "", s |-> s, rd |-> rd, created |-> FALSE] : rd \in same}
            ELSE {[err |-> o.err, s |-> o.s, rd |-> name, created |-> o.err = ""] :
                     o \in create_from_permissions(s, perms, name, content_type)}
       ELSE IF name \in RoleDefinitions(s) /\ s.content_types[name] = content_type
       THEN {[err |-> "", s |-> s, rd |-> name, created |-> FALSE]}
       ELSE IF name \in RoleDefinitions(s)
       THEN {[err |-> "IntegrityError", s |-> s, rd |-> name, created |-> FALSE]}
       ELSE {[err |-> "", s |-> create_role_definition(s, {}, name, content_type),
              rd |-> name, created |-> TRUE]}

GetOrCreate(perms, name, content_type) ==
    \E o \in get_or_create(DB, perms, name, content_type) : Apply([err |-> o.err, s |-> o.s])

CreateFromPermissions(perms, name, content_type) ==
    \E o \in create_from_permissions(DB, perms, name, content_type) : Apply(o)

----------------------------------------------------------------------------
(* SpecDefs: role definitions created and changed, under every choice of the *)
(* settings for global roles                                                  *)

MaxPerms == 2
DefNames == {"test-deleter", "test-deleter-two"}
DefContentTypes == {"None", "organization", "inventory"}

\* the codenames the callers pass
DefAtoms ==
    {Codename("view", "organization"), Codename("change", "organization"),
     Codename("add", "organization"), Codename("view", "inventory"),
     Codename("add", "inventory"), team_permission,
     Codename("view", "exampleevent"), Codename("view", "nothing")}

\* the permission added to and removed from existing definitions
DefChangedAtoms == {Codename("view", "inventory")}

PermissionLists == {P \in SUBSET DefAtoms : Cardinality(P) <= MaxPerms}

InitDefs ==
    /\ parent_id = Organizations
    /\ users = Users
    /\ user_flags = {}
    /\ permissions = << >>
    /\ content_types = << >>
    /\ \E u \in BOOLEAN, g \in BOOLEAN :
          settings = [DefaultSettings EXCEPT !.ALLOW_SINGLETON_USER_ROLES = u,
                                             !.ALLOW_SINGLETON_TEAM_ROLES = g]
    /\ object_roles = {}
    /\ user_assignments = {}
    /\ team_assignments = {}
    /\ provides_teams = {}
    /\ evaluations = {}
    /\ singleton_users = {}
    /\ singleton_teams = {}
    /\ pending = {}
    /\ registry = StartedRegistry
    /\ last = ""

NextDefs ==
    \/ \E P \in PermissionLists, n \in DefNames, ct \in DefContentTypes : GetOrCreate(P, n, ct)
    \/ \E P \in PermissionLists, n \in DefNames, ct \in DefContentTypes :
          CreateFromPermissions(P, n, ct)
    \/ \E rd \in DOMAIN permissions, c \in DefChangedAtoms :
          /\ Cardinality(permissions[rd] \cup {c}) <= MaxPerms
          /\ AddPermissions(rd, {c})
    \/ \E rd \in DOMAIN permissions, c \in DefChangedAtoms : RemovePermissions(rd, {c})

SpecDefs == InitDefs /\ [][NextDefs]_vars

----------------------------------------------------------------------------
(* Role definitions: uniqueness, reuse and validation *)

\* C13: no two distinct role definitions have equal permission sets
C13_UniquePermissionSets ==
    \A a \in DOMAIN permissions : \A b \in DOMAIN permissions :
        a # b => permissions[a] # permissions[b]

NonEmptyLists == PermissionLists \ {{}}
ExistingLists == {P \in PermissionLists : P \subseteq permission_codenames}

C19_GlobalRoleGating ==
    \A P \in ExistingLists : \A n \in DefNames :
        \A o \in create_from_permissions(DB, P, n, "None") :
            (\/ ~settings.ALLOW_SINGLETON_USER_ROLES
             \/ system_roles_enabled(DB) /\ team_permission \in P)
            => o.err = "ValidationError" /\ o.s = DB

\* C19 amended: for a list of existing codenames, creating a role definition with
\* content_type null raises ValidationError and creates nothing whenever singleton roles
\* are disabled both for users and for teams, and, when they are enabled for either,
\* whenever the permissions contain the team-member permission
C19_GlobalRoleGatingBothDisabled ==
    \A P \in ExistingLists : \A n \in DefNames :
        \A o \in create_from_permissions(DB, P, n, "None") :
            (~system_roles_enabled(DB) \/ team_permission \in P)
            => o.err = "ValidationError" /\ o.s = DB

\* a global role was refused: with both settings disabled, or for the team-member
\* permission with a setting enabled
C19_Witness ==
    /\ last = "ValidationError"
    /\ \E P \in ExistingLists : \E n \in DefNames \ DOMAIN permissions :
          \E o \in create_from_permissions(DB, P, n, "None") :
              /\ o.err = "ValidationError"
              /\ ~system_roles_enabled(DB) \/ team_permission \in P

\* the models a permission list mentions: the model of a permission, the parent model
\* for an add permission
Mentions(P) == {role_model(perm) : perm \in P} \ {"None"}

\* C20: create_from_permissions, and get_or_create when it creates, raises
\* ValidationError and creates nothing whenever the permissions mention a model without
\* containing its view permission; a list with the view permission of every model it
\* mentions passes the view check
C20_ViewRequired ==
    \A P \in ExistingLists : \A n \in DefNames : \A ct \in DefContentTypes :
        /\ (\E m \in Mentions(P) : Codename("view", m) \notin P) =>
              /\ \A o \in create_from_permissions(DB, P, n, ct) :
                    o.err = "ValidationError" /\ o.s = DB
              /\ (P # {} /\ ~\E d \in DOMAIN permissions : permissions[d] = P) =>
                    \A o \in get_or_create(DB, P, n, ct) :
                        o.err = "ValidationError" /\ o.s = DB
        /\ (\A m \in Mentions(P) : Codename("view", m) \in P) =>
              \A cls \in {role_model(perm) : perm \in P} : has_view(P, cls)

----------------------------------------------------------------------------
(* Global roles *)

\* the teams a user is a member of through an object role the user holds directly
DirectTeams(s, u) ==
    {T \in PksOf(s, "team") :
        \E R \in s.object_roles : <<R, u>> \in s.user_assignments /\ <<R, T>> \in s.provides_teams}

\* the global role definitions that reach a user, directly or through such a team
GlobalDefsOf(s, u) ==
    {a[1] : a \in {x \in s.singleton_users : x[2] = u}}
    \cup {a[1] : a \in {x \in s.singleton_teams : x[2] \in DirectTeams(s, u)}}

GlobalCodes(s, u) == UNION {s.permissions[rd] : rd \in GlobalDefsOf(s, u)}

\* the actors through which a global grant reaches the user
ReachingActors(s, u) == {<<"user", u>>} \cup {<<"team", T>> : T \in DirectTeams(s, u)}

\* C15: after give_global_permission of a global role definition to a user, or to a
\* team of which the user is a direct member, has_obj_perm is true for every code of
\* the definition on every object of the code's type and singleton_permissions is the
\* union of the codes of all the global definitions that reach the user; after the
\* matching remove_global_permission, and with no other grant, has_obj_perm is false
\* and singleton_permissions is empty
C15_GlobalRoleEvaluation ==
    \A u \in users : \A rd \in GlobalRoleDefs : \A a \in ReachingActors(DB, u) :
        LET g == give_or_remove_global_permission(DB, rd, a, TRUE)
            r == give_or_remove_global_permission(g.s, rd, a, FALSE)
        IN /\ g.err = "" /\ r.err = ""
           /\ \A code \in permissions[rd] : \A o \in DOMAIN parent_id :
                 o[1] = code[2] =>
                    LET h == bound_has_obj_perm(g.s, u, o, code)
                    IN h.err = "" /\ h.result
           /\ singleton_permissions(g.s, u) = GlobalCodes(g.s, u)
           /\ permissions[rd] \subseteq singleton_permissions(g.s, u)
           /\ GlobalDefsOf(r.s, u) = {} =>
                 /\ singleton_permissions(r.s, u) = {}
                 /\ \A code \in permissions[rd] : \A o \in DOMAIN parent_id :
                       (/\ o[1] = code[2]
                        /\ ~RuleA(u) /\ ~RuleB(u, code) /\ ~RuleD(u, o, code))
                       => LET h == bound_has_obj_perm(r.s, u, o, code)
                          IN h.err = "" /\ ~h.result

\* the team holds the global role, the user is a member of the team and holds nothing
\* else: the inventory can be changed, and could not after the removal from the team
C15_Witness ==
    /\ last = ""
    /\ singleton_users = {}
    /\ singleton_teams = {<<"global-change-inv", 1, 1>>}
    /\ user_flags = {}
    /\ user_has_roles(DB, "rando") = {ObjectRole("team-member", "team", 1)}
    /\ team_assignments = {}
    /\ bound_has_obj_perm(DB, "rando", Resource("inventory", 1), <<"change", "inventory">>).result
    /\ ~bound_has_obj_perm(
           give_or_remove_global_permission(DB, "global-change-inv", <<"team", 1>>, FALSE).s,
           "rando", Resource("inventory", 1), <<"change", "inventory">>).result

\* C16: give_global_permission and remove_global_permission, for a user and for a team,
\* leave the object roles, the provides_teams edges and the evaluation tuples unchanged
C16_GlobalGrantsLeaveCache ==
    [][(\E rd \in GlobalRoleDefs : \E a \in EvalActors :
            GiveGlobalPermission(rd, a) \/ RemoveGlobalPermission(rd, a))
       => UNCHANGED <<object_roles, provides_teams, evaluations>>]_vars

\* a global grant to a user and one to a team exist next to a filled cache
C16_Witness ==
    /\ singleton_users # {} /\ singleton_teams # {}
    /\ evaluations # {} /\ provides_teams # {}

----------------------------------------------------------------------------
(* SpecRace: give_global_permission calls that interleave between the get and the *)
(* create of get_or_create                                                        *)

MaxCalls == 2
Calls == 1..MaxCalls

\* a call runs up to the get of get_or_create
BeginGiveGlobal(call, rd, actor) ==
    /\ ActorExists(DB, actor)
    /\ \A c \in pending : c.call # call
    /\ Apply(get_global_assignment(DB, call, rd, actor))

\* a call that found no row creates one
FinishGiveGlobal(c) ==
    /\ c \in pending
    /\ Apply(create_global_assignment(DB, c))

InitRace == InitStore(Fixture, InitialPermissions(OrgAdminPermissions))

NextRace ==
    \/ \E call \in Calls, rd \in GlobalRoleDefs, a \in EvalActors : BeginGiveGlobal(call, rd, a)
    \/ \E c \in pending : FinishGiveGlobal(c)
    \/ \E rd \in GlobalRoleDefs, a \in EvalActors : RemoveGlobalPermission(rd, a)
    \/ \E u \in Users : GivePermission("team-member", <<"user", u>>, Resource("team", 1))
    \/ \E u \in Users : RemovePermission("team-member", <<"user", u>>, Resource("team", 1))

SpecRace == InitRace /\ [][NextRace]_vars

\* C17: at most one global assignment exists for an actor and a role definition, also
\* after repeated and after interleaved give_global_permission calls, so that one
\* remove_global_permission leaves no assignment of the role definition to the actor
C17_OneGlobalAssignment ==
    \A rd \in GlobalRoleDefs : \A a \in EvalActors :
        /\ Cardinality(global_rows(global_table(DB, a), rd, a[2])) <= 1
        /\ LET r == give_or_remove_global_permission(DB, rd, a, FALSE)
           IN r.err = "" /\ global_rows(global_table(r.s, a), rd, a[2]) = {}

----------------------------------------------------------------------------
(* Removing what is not there *)

\* C18: remove_permission for an actor that does not hold the role on the resource,
\* whether or not an object role for the pair exists, and remove_global_permission for
\* an actor without that global assignment, raise nothing and leave object roles,
\* assignments, provides_teams and evaluation tuples unchanged
C18_RemoveAbsentIsNoOp ==
    /\ \A rd \in RoleDefs, a \in Actors, o \in Targets :
          (Callable(DB, rd, a, o) /\ ~Holds(DB, rd, a, o)) =>
              LET r == remove_permission(DB, rd, a, o)
              IN r.err = "" /\ SameRows(r.s, DB)
    /\ \A rd \in GlobalRoleDefs, a \in Actors :
          (ActorExists(DB, a) /\ global_rows(global_table(DB, a), rd, a[2]) = {}) =>
              LET r == give_or_remove_global_permission(DB, rd, a, FALSE)
              IN r.err = "" /\ r.s = DB

----------------------------------------------------------------------------
(* Global roles that only add *)

AddOnlyLists == {P \in ExistingLists : P # {} /\ \A perm \in P : is_add_perm(perm)}

\* C21: with global roles enabled a role definition with content_type null whose
\* permissions are only add permissions is accepted without any view permission, for
\* a root type (add_organization) and for a type with a registered parent
\* (add_inventory)
C21_GlobalAddAccepted ==
    system_roles_enabled(DB) =>
        \A P \in AddOnlyLists : \A n \in DefNames \ DOMAIN permissions :
            \A o \in create_from_permissions(DB, P, n, "None") :
                /\ o.err = ""
                /\ n \in DOMAIN o.s.permissions /\ o.s.permissions[n] = P

\* the part of C21 about root types alone
C21_RootAddAccepted ==
    system_roles_enabled(DB) =>
        \A n \in DefNames \ DOMAIN permissions :
            \A o \in create_from_permissions(DB, {Codename("add", "organization")}, n, "None") :
                o.err = ""

----------------------------------------------------------------------------
(* SpecAssign: give_permission called with any role definition, any actor and any  *)
(* object, under every combination of the team assignment switches                 *)

\* the actors of the calls: the user, the team, and the inventory of test_invalid_actor
AssignActors == EvalActors \cup {<<"inventory", 1>>}

InstanceExists(s, actor) ==
    IF actor[1] = "user" THEN actor[2] \in s.users ELSE actor \in DOMAIN s.parent_id

\* rd.give_permission(actor, obj) for whatever is passed
CallGivePermission(rd, actor, obj) ==
    /\ InstanceExists(DB, actor)
    /\ obj \in DOMAIN parent_id
    /\ Apply(give_permission(DB, rd, actor, obj))

InitAssign ==
    \E org_permissions \in {OrgAdminPermissions, OrgMemberPermissions} :
        \E tt \in BOOLEAN, to \in BOOLEAN, tot \in BOOLEAN :
            InitStoreWith(Fixture, InitialPermissions(org_permissions),
                          [DefaultSettings EXCEPT !.TEAM_TEAM_ALLOWED = tt,
                                                  !.TEAM_ORG_ALLOWED = to,
                                                  !.TEAM_ORG_TEAM_ALLOWED = tot])

NextAssign ==
    \/ \E rd \in RoleDefs \cup GlobalRoleDefs, a \in AssignActors, o \in DOMAIN Fixture :
          /\ NumAssignments(DB) < MaxAssignments
          /\ CallGivePermission(rd, a, o)
    \/ \E rd \in RoleDefs, a \in EvalActors, o \in DOMAIN Fixture : RemovePermission(rd, a, o)

SpecAssign == InitAssign /\ [][NextAssign]_vars

AllSwitchesOn ==
    settings.TEAM_TEAM_ALLOWED /\ settings.TEAM_ORG_ALLOWED /\ settings.TEAM_ORG_TEAM_ALLOWED

Prohibited(rd, o) ==
    \/ o[1] = "team" /\ ~settings.TEAM_TEAM_ALLOWED
    \/ o[1] = "organization" /\ ~settings.TEAM_ORG_ALLOWED
    \/ /\ o[1] = "organization" /\ team_permission \in permissions[rd]
       /\ ~settings.TEAM_ORG_TEAM_ALLOWED

\* C23: give_permission of a role definition of the target's type raises ValidationError
\* for a team actor exactly when (i) the target is a team and TEAM_TEAM_ALLOWED is off,
\* (ii) the target is an organization and TEAM_ORG_ALLOWED is off, or (iii) the target
\* is an organization, the definition contains member_team and TEAM_ORG_TEAM_ALLOWED is
\* off; for a user actor it never does
C23_TeamGrantSwitches ==
    \A rd \in RoleDefs : \A a \in EvalActors : \A o \in DOMAIN parent_id :
        Callable(DB, rd, a, o) =>
            LET r == give_permission(DB, rd, a, o)
            IN r.err = "ValidationError" <=> (a[1] = "team" /\ Prohibited(rd, o))

\* only TEAM_ORG_TEAM_ALLOWED is off: the team was refused the organization role that
\* contains member_team, and the user is not
C23_Witness ==
    /\ last = "ValidationError"
    /\ settings.TEAM_TEAM_ALLOWED /\ settings.TEAM_ORG_ALLOWED /\ ~settings.TEAM_ORG_TEAM_ALLOWED
    /\ team_permission \in permissions["org-role"]
    /\ give_permission(DB, "org-role", <<"team", 1>>, Resource("organization", 1)).err
          = "ValidationError"
    /\ give_permission(DB, "org-role", <<"user", "rando">>, Resource("organization", 1)).err = ""
    /\ give_permission(DB, "inv-admin", <<"team", 1>>, Resource("inventory", 1)).err = ""

\* C24: whenever give_permission raises ValidationError, for a team assignment switch
\* or for an actor that is neither a user nor a team, the object roles, assignments,
\* provides_teams and evaluation tuples are those before the call
C24_RejectedLeavesNoTrace ==
    \A rd \in DOMAIN permissions : \A a \in AssignActors : \A o \in DOMAIN parent_id :
        InstanceExists(DB, a) =>
            LET r == give_permission(DB, rd, a, o)
            IN r.err = "ValidationError" =>
                  /\ r.s.object_roles = object_roles
                  /\ r.s.user_assignments = user_assignments
                  /\ r.s.team_assignments = team_assignments
                  /\ r.s.provides_teams = provides_teams
                  /\ r.s.evaluations = evaluations

----------------------------------------------------------------------------
(* Creator permissions: managers.py *)

\* settings.ANSIBLE_BASE_CREATOR_DEFAULTS
CREATOR_DEFAULTS == {"change", "delete", "view"}

\* the permissions of the model of the object and of its child models whose action is a
\* creator default, without the add permission of the model itself
needed_perms(model) ==
    {perm \in permission_codenames :
        /\ perm[2] \in {model} \cup {c.model : c \in get_child_models(model)}
        /\ perm[1] \in CREATOR_DEFAULTS
        /\ ~(is_add_perm(perm) /\ perm[2] = model)}

\* RoleEvaluation.get_permissions
get_permissions(s, user, obj) ==
    {e.codename : e \in {x \in s.evaluations :
                            /\ x.role \in user_has_roles(s, user)
                            /\ x.content_type_id = obj[1]
                            /\ x.object_id = obj[2]}}

\* f'{obj._meta.model_name}-creator-permission'
creator_name(model) ==
    CASE model = "inventory" -> "inventory-creator-permission"
      [] model = "team" -> "team-creator-permission"
      [] OTHER -> "organization-creator-permission"

\* creator permissions given whatever the user is and has (used to test the sensitivity
\* of the property of skipped creator permissions)
give_creator_permissions_always(s, user, obj) ==
    {IF g.err # "" THEN [err |-> g.err, s |-> s]
     ELSE LET given == give_permission(g.s, g.rd, <<"user", user>>, obj)
          IN IF given.err # "" THEN [err |-> given.err, s |-> g.s] ELSE given :
        g \in get_or_create(s, needed_perms(obj[1]), creator_name(obj[1]), obj[1])}

\* RoleDefinitionManager.give_creator_permissions: the set of outcomes [err, s]; the
\* second get_or_create of the except branch validates the same permissions again
give_creator_permissions(s, user, obj) ==
    LET has_permissions == get_permissions(s, user, obj) \cup singleton_permissions(s, user)
    IN IF \E super_flag \in ROLE_BYPASS_SUPERUSER_FLAGS : <<user, super_flag>> \in s.user_flags
       THEN {[err |-> "", s |-> s]}
       ELSE IF needed_perms(obj[1]) \ has_permissions = {} THEN {[err |-> "", s |-> s]}
       ELSE {IF g.err # "" THEN [err |-> g.err, s |-> s]
             ELSE LET given == give_permission(g.s, g.rd, <<"user", user>>, obj)
                  IN IF given.err # "" THEN [err |-> given.err, s |-> g.s] ELSE given :
                g \in get_or_create(s, needed_perms(obj[1]), creator_name(obj[1]), obj[1])}

\* RoleDefinition.delete(): on_delete=CASCADE from the object roles and the assignments
\* to the role definition; no signal recomputes what the remaining roles confer
delete_role_definition(s, rd) ==
    LET gone == {R \in s.object_roles : R.role_definition = rd}
        s1 == DeleteObjectRoles(s, gone)
        left == DOMAIN s.permissions \ {rd}
    IN [err |-> "",
        s |-> [s1 EXCEPT !.permissions = [d \in left |-> s.permissions[d]],
                         !.content_types = [d \in left |-> s.content_types[d]],
                         !.singleton_users = {a \in @ : a[1] # rd},
                         !.singleton_teams = {a \in @ : a[1] # rd}]]

DeleteRoleDefinition(rd) ==
    /\ rd \in DOMAIN permissions
    /\ Apply(delete_role_definition(DB, rd))

GiveCreatorPermissions(user, obj) ==
    /\ user \in users
    /\ obj \in DOMAIN parent_id
    /\ \E o \in give_creator_permissions(DB, user, obj) : Apply(o)

----------------------------------------------------------------------------
(* SpecCreator: creator permissions next to role definitions made before them *)

\* INVENTORY_OBJ_PERMS of test_creator_permission.py, and the same without update
CreatorLists ==
    {{Codename("change", "inventory"), Codename("update", "inventory"),
      Codename("view", "inventory"), Codename("delete", "inventory")},
     {Codename("change", "inventory"), Codename("view", "inventory"),
      Codename("delete", "inventory")}}

CreatorTargets == {Resource("inventory", 1), Resource("team", 1)}

\* the role definitions that are deleted: inv_rd of test_delete_role_definition and
\* those made for the creator permissions
DeletedDefs ==
    {"inv-admin", "global-inventory-admin", "inventory-creator-permission",
     "team-creator-permission"}

InitCreator == InitStore(Fixture, InitialPermissions(OrgAdminPermissions))

NextCreator ==
    \/ \E u \in Users, obj \in CreatorTargets : GiveCreatorPermissions(u, obj)
    \/ \E P \in CreatorLists, ct \in DefContentTypes :
          CreateFromPermissions(P, "global-inventory-admin", ct)
    \/ \E rd \in DOMAIN permissions, u \in Users, obj \in DOMAIN Fixture :
          /\ NumAssignments(DB) < MaxAssignments
          /\ GivePermission(rd, <<"user", u>>, obj)
    \/ \E rd \in DOMAIN permissions, u \in Users, obj \in DOMAIN Fixture :
          RemovePermission(rd, <<"user", u>>, obj)
    \/ \E rd \in DOMAIN permissions, u \in Users : GiveGlobalPermission(rd, <<"user", u>>)
    \/ \E u \in Users, v \in BOOLEAN : SetFlag(u, "is_superuser", v)
    \/ \E rd \in DeletedDefs : DeleteRoleDefinition(rd)

SpecCreator == InitCreator /\ [][NextCreator]_vars

\* what the user has on the object through object roles and through global roles
HasOn(s, u, obj) ==
    {e.codename : e \in {x \in s.evaluations :
                            /\ <<x.role, u>> \in s.user_assignments
                            /\ <<x.content_type_id, x.object_id>> = obj}}
    \cup GlobalCodes(s, u)

\* a type below another in the parent fields
RECURSIVE IsBelowType(_, _)
IsBelowType(m, anc) ==
    /\ m \in DOMAIN parent_fields
    /\ parent_fields[m] = anc \/ IsBelowType(parent_fields[m], anc)

\* the creator permissions of an object: the creator actions on its type and on the
\* types below it
CreatorCodes(obj) ==
    {perm \in permission_codenames :
        /\ perm[1] \in CREATOR_DEFAULTS
        /\ perm[2] = obj[1] \/ IsBelowType(perm[2], obj[1])}

\* C25: for every state of the role definitions and every user without a superuser
\* flag, after give_creator_permissions(user, obj) has_obj_perm(user, obj, a) is true for
\* every action a of CREATOR_DEFAULTS that the type of obj has a permission for, and,
\* when the user held nothing on obj before, false for update
C25_CreatorPermissionsGranted ==
    \A u \in users : \A obj \in CreatorTargets \cap DOMAIN parent_id :
        (~\E f \in ROLE_BYPASS_SUPERUSER_FLAGS : <<u, f>> \in user_flags) =>
            \A o \in give_creator_permissions(DB, u, obj) :
                /\ o.err = ""
                /\ \A a \in CREATOR_DEFAULTS :
                      Codename(a, obj[1]) \in permission_codenames =>
                         bound_has_obj_perm(o.s, u, obj, Codename(a, obj[1])).result
                /\ (HasOn(DB, u, obj) = {} /\ user_flags = {} /\ obj[1] = "inventory") =>
                      ~bound_has_obj_perm(o.s, u, obj, Codename("update", "inventory")).result

\* C26: give_creator_permissions creates no role definition, no object role and no
\* assignment when the user has a superuser flag, or when what the user has on obj
\* through object roles and global roles includes every needed creator permission
C26_CreatorPermissionsSkipped ==
    \A u \in users : \A obj \in CreatorTargets \cap DOMAIN parent_id :
        (\/ \E f \in ROLE_BYPASS_SUPERUSER_FLAGS : <<u, f>> \in user_flags
         \/ CreatorCodes(obj) \subseteq HasOn(DB, u, obj))
        => \A o \in give_creator_permissions(DB, u, obj) :
              /\ o.err = ""
              /\ DOMAIN o.s.permissions = DOMAIN permissions
              /\ o.s.object_roles = object_roles
              /\ o.s.user_assignments = user_assignments
              /\ o.s.team_assignments = team_assignments

\* the user has every creator permission of the inventory through a global role alone,
\* holds no object role, and the call leaves it so
C26_Witness ==
    /\ user_flags = {} /\ user_assignments = {} /\ singleton_users # {}
    /\ "inventory-creator-permission" \notin DOMAIN permissions
    /\ CreatorCodes(Resource("inventory", 1)) \subseteq GlobalCodes(DB, "rando")
    /\ give_creator_permissions(DB, "rando", Resource("inventory", 1)) = {[err |-> "", s |-> DB]}
    /\ give_creator_permissions(DB, "rando", Resource("team", 1)) # {[err |-> "", s |-> DB]}

----------------------------------------------------------------------------
(* SpecAdd: an organization role with an add permission, with and without *)
(* ANSIBLE_BASE_CACHE_PARENT_PERMISSIONS                                  *)

\* the role definition can-add-inventory of test_resource_add_permission
OrgAddPermissions == {Codename("add", "inventory"), Codename("view", "organization")}

InitAdd ==
    \E cache \in BOOLEAN :
        InitStoreWith(Organizations, InitialPermissions(OrgAddPermissions),
                      [DefaultSettings EXCEPT !.CACHE_PARENT_PERMISSIONS = cache])

SpecAdd == InitAdd /\ [][Next]_vars

\* the types with a parent field to the type
DirectChildTypes(model) == {m \in DOMAIN parent_fields : parent_fields[m] = model}

\* C27: for an object role on an organization whose definition contains add_X for a
\* direct child type X, the materializer emits (add_X, organization, id) on the
\* organization, whatever CACHE_PARENT_PERMISSIONS is, and no tuple on a resource of
\* type X; a user that holds the role has add_X on the organization, and a user that
\* holds nothing but the role has no permission on a child
C27_AddOnParent ==
    \A R \in object_roles : \A X \in DirectChildTypes("organization") :
        (R.content_type = "organization" /\ Codename("add", X) \in permissions[R.role_definition])
        => LET org == Resource("organization", R.object_id)
           IN /\ <<Codename("add", X), "organization", R.object_id>>
                    \in expected_direct_permissions(DB, R)
              /\ \A t \in expected_direct_permissions(DB, R) :
                    t[1] = Codename("add", X) => t[2] = "organization"
              /\ \A e \in evaluations : e.codename = Codename("add", X) => e.content_type_id # X
              /\ \A u \in users :
                    <<R, u>> \in user_assignments =>
                       /\ bound_has_obj_perm(DB, u, org, Codename("add", X)).result
                       /\ Codename("add", X) \in get_permissions(DB, u, org)
                       /\ user_has_roles(DB, u) = {R} =>
                             \A child \in DOMAIN parent_id :
                                 child[1] = X => get_permissions(DB, u, child) = {}

\* the user holds the role with add_inventory on the organization of an inventory,
\* without the parent permissions setting
C27_Witness ==
    /\ ~settings.CACHE_PARENT_PERMISSIONS
    /\ Resource("inventory", 1) \in DOMAIN parent_id
    /\ user_has_roles(DB, "rando")
          = {ObjectRole("org-role", "organization", parent_id[Resource("inventory", 1)])}
    /\ get_permissions(DB, "rando", Resource("organization", parent_id[Resource("inventory", 1)]))
          = OrgAddPermissions
    /\ get_permissions(DB, "rando", Resource("inventory", 1)) = {}

----------------------------------------------------------------------------
(* Deleting a role definition *)

\* an object role or an assignment, global ones included, references the definition
Referenced(s, rd) ==
    \/ \E R \in s.object_roles : R.role_definition = rd
    \/ \E a \in s.singleton_users \cup s.singleton_teams : a[1] = rd

\* C28: deleting a role definition is refused, and changes nothing, while an object
\* role or a user or team assignment references it, and succeeds when none does
C28_DeletionGuard ==
    \A rd \in DOMAIN permissions :
        LET r == delete_role_definition(DB, rd)
        IN IF Referenced(DB, rd) THEN r.err # "" /\ r.s = DB
           ELSE r.err = "" /\ rd \notin DOMAIN r.s.permissions

----------------------------------------------------------------------------
(* SpecRegistry: PermissionRegistry.register and call_when_apps_ready *)

\* the loop of register over the classes passed
RECURSIVE register_loop(_, _, _)
register_loop(reg, args, parent_field_name) ==
    IF args = << >> THEN [err |-> "", reg |-> reg]
    ELSE LET cls == Head(args)
             added == [reg EXCEPT !.models = @ \cup {cls}]
         IN IF cls \in reg.models THEN [err |-> "Exception", reg |-> reg]
            ELSE IF cls[2] \in DOMAIN reg.name_to_model
            THEN [err |-> "RuntimeError", reg |-> added]
            ELSE register_loop(
                     [added EXCEPT !.name_to_model = (cls[2] :> cls) @@ @,
                                   !.parent_fields = IF cls[2] # "organization"
                                                     THEN (cls[2] :> parent_field_name) @@ @
                                                     ELSE @],
                     Tail(args), parent_field_name)

\* PermissionRegistry.register(*args, parent_field_name=...): returns [err, reg]
register(reg, args, parent_field_name) ==
    IF reg.apps_ready
    THEN [err |-> "RuntimeError", reg |-> reg]
    ELSE register_loop(reg, args, parent_field_name)

\* PermissionRegistry.call_when_apps_ready
call_when_apps_ready(reg) ==
    [reg EXCEPT !.apps_ready = TRUE, !.models = @ \cup {<<"test_app", "team">>}]

MaxArgs == 2

\* the classes passed to register: models of test_app, and a model of another
\* application with the name of one of them
RegistryClasses ==
    {<<"test_app", "organization">>, <<"test_app", "inventory">>, <<"test_app", "team">>,
     <<"other_app", "inventory">>}

RegisterArgs == UNION {[1..n -> RegistryClasses] : n \in 1..MaxArgs}

Register(args, parent_field_name) ==
    LET r == register(registry, args, parent_field_name)
    IN Apply([err |-> r.err, s |-> [DB EXCEPT !.registry = r.reg]])

CallWhenAppsReady ==
    /\ ~registry.apps_ready
    /\ Apply([err |-> "", s |-> [DB EXCEPT !.registry = call_when_apps_ready(registry)]])

InitRegistry ==
    /\ parent_id = << >>
    /\ users = {}
    /\ user_flags = {}
    /\ permissions = << >>
    /\ content_types = << >>
    /\ settings = DefaultSettings
    /\ object_roles = {}
    /\ user_assignments = {}
    /\ team_assignments = {}
    /\ provides_teams = {}
    /\ evaluations = {}
    /\ singleton_users = {}
    /\ singleton_teams = {}
    /\ pending = {}
    /\ registry = [models |-> {}, name_to_model |-> << >>, parent_fields |-> << >>,
                   apps_ready |-> FALSE]
    /\ last = ""

\* the parent field names passed to register
ParentFieldNames == {"organization", "namespace", "team", "inventory"}

NextRegistry ==
    \/ \E args \in RegisterArgs, parent_field_name \in ParentFieldNames :
          Register(args, parent_field_name)
    \/ CallWhenAppsReady

SpecRegistry == InitRegistry /\ [][NextRegistry]_vars

\* C29: register raises when it is called after call_when_apps_ready ran, and when the
\* name of a model passed is that of a model already registered; in both cases the
\* registry (models, name map, parent fields) is the same as before the call
C29_RegistrationErrors ==
    \A args \in RegisterArgs : \A parent_field_name \in {"organization", "namespace"} :
        LET r == register(registry, args, parent_field_name)
        IN (\/ registry.apps_ready
            \/ \E i \in DOMAIN args : args[i][2] \in DOMAIN registry.name_to_model)
           => r.err # "" /\ r.reg = registry

\* the part of C29 about a call after startup
C29_AfterStartup ==
    \A args \in RegisterArgs : \A parent_field_name \in {"organization", "namespace"} :
        registry.apps_ready =>
            LET r == register(registry, args, parent_field_name)
            IN r.err = "RuntimeError" /\ r.reg = registry

----------------------------------------------------------------------------
(* SpecFirst: give_permission calls interleaved between the read of the object
   role (the filter and first of the manager) and its creation *)

\* give_or_remove_permission up to the read of the object role
get_object_role(s, call, rd, actor, obj) ==
    IF validate_assignment(s, rd, actor, obj) # "" THEN [err |-> "ValidationError", s |-> s]
    ELSE [err |-> "",
          s |-> [s EXCEPT !.pending = @ \cup
                    {[call |-> call, rd |-> rd, actor |-> actor, obj |-> obj,
                      found |-> ObjectRole(rd, obj[1], obj[2]) \in s.object_roles]}]]

\* the rest of give_or_remove_permission: ObjectRole.objects.create when none was read,
\* refused by the constraint one_object_role_per_object_and_role when a row is there
create_object_role(s, c) ==
    LET rest == [s EXCEPT !.pending = @ \ {c}]
    IN IF ~c.found /\ ObjectRole(c.rd, c.obj[1], c.obj[2]) \in s.object_roles
       THEN [err |-> "IntegrityError", s |-> rest]
       ELSE give_or_remove_permission(rest, c.rd, c.actor, c.obj, TRUE)

BeginGivePermission(call, rd, actor, obj) ==
    /\ ActorExists(DB, actor)
    /\ \A c \in pending : c.call # call
    /\ Apply(get_object_role(DB, call, rd, actor, obj))

FinishGivePermission(c) ==
    /\ c \in pending
    /\ Apply(create_object_role(DB, c))

InitFirst == InitStore(Fixture, InitialPermissions(OrgAdminPermissions))

NextFirst ==
    \/ \E call \in Calls, rd \in {"inv-admin", "team-member"}, a \in EvalActors, obj \in EvalTargets :
          BeginGivePermission(call, rd, a, obj)
    \/ \E c \in pending : FinishGivePermission(c)

SpecFirst == InitFirst /\ [][NextFirst]_vars

\* C30: a give_permission call that read no object role for the pair, and finishes after
\* a concurrent call for another actor created the object role and its assignment,
\* completes without an integrity error and leaves the object role with an assignment
\* for each of the two actors
C30_ConcurrentFirstAssignments ==
    \A c \in pending :
        LET R == ObjectRole(c.rd, c.obj[1], c.obj[2])
            r == create_object_role(DB, c)
        IN (/\ ~c.found
            /\ R \in object_roles
            /\ ~Holds(DB, c.rd, c.actor, c.obj)
            /\ \E a \in EvalActors : a # c.actor /\ Holds(DB, c.rd, a, c.obj))
           => /\ r.err # "IntegrityError"
              /\ R \in r.s.object_roles
              /\ Holds(r.s, c.rd, c.actor, c.obj)
              /\ \E a \in EvalActors : a # c.actor /\ Holds(r.s, c.rd, a, c.obj)

\* calls that do not overlap: every call that finishes after reading no object
\* role creates it and the assignment
C30_Sequential ==
    \A c \in pending :
        LET R == ObjectRole(c.rd, c.obj[1], c.obj[2])
            r == create_object_role(DB, c)
        IN (~c.found /\ R \notin object_roles /\ r.err = "")
           => R \in r.s.object_roles /\ Holds(r.s, c.rd, c.actor, c.obj)

----------------------------------------------------------------------------
(* SpecOrder: the trigger paths that recompute team membership and the cache *)

GATEWAY_ROLE_PRECREATE == TRUE

\* triggers.post_migration_rbac_setup; the managed role definitions it creates first
\* have no object roles
post_migration_rbac_setup(s) ==
    IF ~GATEWAY_ROLE_PRECREATE THEN [err |-> "", s |-> s]
    ELSE LET teams == compute_team_member_roles(s)
         IN IF teams.err THEN [err |-> "RecursionError", s |-> s]
            ELSE [err |-> "",
                  s |-> compute_object_role_permissions(teams.s, teams.s.object_roles)]

PostMigrate == Apply(post_migration_rbac_setup(DB))

InitOrder == InitStore(Fixture, InitialPermissions(OrgAdminPermissions))

NextOrder ==
    \/ \E rd \in RoleDefs, a \in EvalActors, o \in PermsTargets : GivePermission(rd, a, o)
    \/ \E rd \in RoleDefs, a \in EvalActors, o \in PermsTargets : RemovePermission(rd, a, o)
    \/ AddPermissions("org-role", {team_permission})
    \/ RemovePermissions("org-role", {team_permission})
    \/ ClearPermissions("team-member")
    \/ DeleteResource(Resource("team", 1))
    \/ CreateResource("team", 1, 1)
    \/ PostMigrate

SpecOrder == InitOrder /\ [][NextOrder]_vars

\* what each trigger path, started in store s, calls
TriggerLogs(s) ==
    {give_or_remove_permission(s, rd, a, o, giving).s.log :
        rd \in RoleDefs, a \in EvalActors, o \in PermsTargets, giving \in BOOLEAN}
    \cup {add_permissions(s, rd, {c}).s.log : rd \in RoleDefs, c \in ChangedAtoms}
    \cup {remove_permissions(s, rd, {c}).s.log : rd \in RoleDefs, c \in ChangedAtoms}
    \cup {clear_permissions(s, rd).s.log : rd \in RoleDefs}
    \cup {save(s, set_original_parent("team", t, 1), Resource("team", t) \notin DOMAIN s.parent_id).s.log :
             t \in 1..2}
    \cup {delete(s, r).s.log : r \in DOMAIN s.parent_id \cap {Resource("team", 1)}}
    \cup {post_migration_rbac_setup(s).s.log}

BothRan == <<"compute_team_member_roles", "compute_object_role_permissions">>

----------------------------------------------------------------------------
(* Order of grant and creation *)

\* the next primary key of a model
NextPk(s, model) ==
    MinOf({k \in 1..(Cardinality(PksOf(s, model)) + 1) : k \notin PksOf(s, model)})

\* what the users can reach in a store
Reachable(s) ==
    [x \in Users \X {"organization", "team", "inventory"} \X permission_codenames |->
        accessible_ids(s, x[2], x[1], x[3])]

\* a role given on the organization, then a child created, and the other order
GrantThenCreate(rd, a, org, model) ==
    LET inst == set_original_parent(model, NextPk(DB, model), org[2])
        given == give_permission(DB, rd, a, org)
    IN [first |-> given, second |-> save(given.s, inst, TRUE)]

CreateThenGrant(rd, a, org, model) ==
    LET inst == set_original_parent(model, NextPk(DB, model), org[2])
        created == save(DB, inst, TRUE)
    IN [first |-> created, second |-> give_permission(created.s, rd, a, org)]

\* a member role (on the team or on its organization) given to the user, then a role
\* given to the team, and the other order
MemberThenRole(u, member_rd, on, team, rd, o) ==
    LET member == give_permission(DB, member_rd, <<"user", u>>, on)
    IN [first |-> member, second |-> give_permission(member.s, rd, <<"team", team[2]>>, o)]

RoleThenMember(u, member_rd, on, team, rd, o) ==
    LET given == give_permission(DB, rd, <<"team", team[2]>>, o)
    IN [first |-> given, second |-> give_permission(given.s, member_rd, <<"user", u>>, on)]

\* the grants of a member role that make the user a member of the team
MemberGrants(team) ==
    {x \in RoleDefs \X PermsTargets :
        /\ HasTeamPerm(DB, x[1])
        /\ x[2] \in {team, Resource("organization", parent_id[team])}}

SameOutcome(x, y) ==
    /\ (x.first.err = "" /\ x.second.err = "") = (y.first.err = "" /\ y.second.err = "")
    /\ (x.first.err = "" /\ x.second.err = "") =>
          /\ x.second.s.evaluations = y.second.s.evaluations
          /\ Reachable(x.second.s) = Reachable(y.second.s)

\* C32: the evaluation tuples and the accessible ids are the same whether a role with
\* permissions of a child type is given on the parent before or after the child is
\* created, and whether a user is made member of a team before or after the team is
\* given a role
C32_OrderIndependence ==
    /\ \A rd \in RoleDefs, a \in EvalActors, model \in {"team", "inventory"} :
          \A org \in ObjectsOf(DB, "organization") :
             (Callable(DB, rd, a, org) /\ ~Holds(DB, rd, a, org)) =>
                 SameOutcome(GrantThenCreate(rd, a, org, model),
                             CreateThenGrant(rd, a, org, model))
    /\ \A u \in Users, rd \in RoleDefs, o \in PermsTargets :
          \A team \in ObjectsOf(DB, "team") : \A m \in MemberGrants(team) :
             (/\ Callable(DB, rd, <<"team", team[2]>>, o)
              /\ Callable(DB, m[1], <<"user", u>>, m[2])
              /\ ~Holds(DB, rd, <<"team", team[2]>>, o)
              /\ ~Holds(DB, m[1], <<"user", u>>, m[2])) =>
                 SameOutcome(MemberThenRole(u, m[1], m[2], team, rd, o),
                             RoleThenMember(u, m[1], m[2], team, rd, o))

\* other roles are held already, and from here a grant on the organization reaches a
\* child created after it, and a membership reaches a role given to the team after it
C32_Witness ==
    /\ user_assignments # {} /\ team_assignments # {}
    /\ \E rd \in RoleDefs, a \in EvalActors, org \in ObjectsOf(DB, "organization") :
          /\ Callable(DB, rd, a, org) /\ ~Holds(DB, rd, a, org)
          /\ LET x == GrantThenCreate(rd, a, org, "inventory")
             IN /\ x.second.err = ""
                /\ \E e \in x.second.s.evaluations :
                      /\ e.role = ObjectRole(rd, org[1], org[2])
                      /\ e.content_type_id = "inventory"
                      /\ e.object_id = NextPk(DB, "inventory")
    /\ \E u \in Users, rd \in RoleDefs, o \in PermsTargets, team \in ObjectsOf(DB, "team") :
          /\ ~Holds(DB, rd, <<"team", team[2]>>, o)
          /\ ~Holds(DB, "team-member", <<"user", u>>, team)
          /\ LET x == MemberThenRole(u, "team-member", team, team, rd, o)
             IN /\ x.second.err = ""
                /\ \E c \in permission_codenames :
                      /\ o[2] \in accessible_ids(x.second.s, o[1], u, c)
                      /\ o[2] \notin accessible_ids(x.first.s, o[1], u, c)

----------------------------------------------------------------------------
(* SpecMat: saves of new inventories interleaved between the loop of
   compute_object_role_permissions that collects the updates and its bulk writes *)

\* the loop over the object roles: what to add and what to delete
cache_updates(s, roles) ==
    LET updates == [R \in roles |-> needed_cache_updates(s, R)]
    IN [to_add |-> UNION {updates[R].to_add : R \in roles},
        to_delete |-> UNION {updates[R].to_delete : R \in roles}]

\* bulk_create of the collected rows, refused as a whole by the constraint
\* one_entry_per_object_permission_and_role when one of them is there; then the delete
bulk_create_and_delete(s, updates) ==
    IF updates.to_add \cap s.evaluations # {}
    THEN [err |-> "IntegrityError", s |-> s]
    ELSE [err |-> "",
          s |-> [s EXCEPT !.evaluations = (@ \cup updates.to_add) \ updates.to_delete,
                          !.log = Append(@, "compute_object_role_permissions")]]

\* the save of a new resource that is not a team: the row, then
\* post_save_update_obj_permissions up to the end of the loop of the materializer
begin_save(s, call, inst) ==
    LET r == Resource(inst.model, inst.pk)
        s1 == [s EXCEPT !.parent_id =
                  [x \in DOMAIN s.parent_id \cup {r} |->
                      IF x = r THEN inst.parent_id ELSE s.parent_id[x]]]
        new_roles == RolesOn(s1, get_parent_model(inst.model), inst.parent_id)
        ancestors == {R \in s1.object_roles :
                         \E t \in RoleProvidesTeams(s1, R) : team_has_roles(s1, t) \cap new_roles # {}}
        to_update == new_roles \cup ancestors
    IN [err |-> "",
        s |-> [s1 EXCEPT !.pending = @ \cup
                  {[call |-> call, roles |-> to_update, updates |-> cache_updates(s1, to_update)]}]]

\* the rest of the save
finish_save(s, c) == bulk_create_and_delete([s EXCEPT !.pending = @ \ {c}], c.updates)

BeginSave(call, model, parent) ==
    /\ \A c \in pending : c.call # call
    /\ NextPk(DB, model) <= MaxCalls + 1
    /\ Apply(begin_save(DB, call, set_original_parent(model, NextPk(DB, model), parent)))

FinishSave(c) ==
    /\ c \in pending
    /\ Apply(finish_save(DB, c))

InitMat == InitStore(Fixture, InitialPermissions(OrgAdminPermissions))

NextMat ==
    \/ \E call \in Calls : BeginSave(call, "inventory", 1)
    \/ \E c \in pending : FinishSave(c)
    \/ \E rd \in {"org-role", "inv-admin"}, a \in EvalActors, o \in PermsTargets :
          GivePermission(rd, a, o)

SpecMat == InitMat /\ [][NextMat]_vars

\* C33: materializer runs that overlap in time and in object roles all complete, and
\* when they are done every object role they covered has exactly its expected tuples;
\* runs over disjoint sets of object roles collect no common tuple
C33_ConcurrentMaterializer ==
    /\ \A c \in pending :
          LET r == finish_save(DB, c)
          IN /\ r.err = ""
             /\ r.s.pending = {} =>
                   \A R \in c.roles \cap r.s.object_roles :
                       {<<e.codename, e.content_type_id, e.object_id>> : e \in RoleEvaluations(r.s, R)}
                           = ExpectedEvaluations(r.s, R)
    /\ \A c, d \in pending :
          c.roles \cap d.roles = {} => c.updates.to_add \cap d.updates.to_add = {}

\* runs over disjoint sets of object roles collect no common tuple
C33_DisjointRuns ==
    \A c, d \in pending :
        (c # d /\ c.roles \cap d.roles = {}) => c.updates.to_add \cap d.updates.to_add = {}

----------------------------------------------------------------------------
(* The parent graph of the registry *)

\* following the parent fields from model cur for at most n steps leads to model m
RECURSIVE LeadsTo(_, _, _, _)
LeadsTo(reg, cur, m, n) ==
    /\ n > 0
    /\ cur \in DOMAIN reg.parent_fields
    /\ \/ reg.parent_fields[cur] = m
       \/ LeadsTo(reg, reg.parent_fields[cur], m, n - 1)

\* C34: the parent graph of the registered models is acyclic in every reachable state
\* of the registry: register rejects a registration whose parent_field_name would
\* close a cycle
C34_AcyclicRegistry ==
    \A m \in DOMAIN registry.parent_fields :
        ~LeadsTo(registry, m, m, Cardinality(DOMAIN registry.parent_fields))

----------------------------------------------------------------------------
(* provides_teams and the membership of teams in teams *)

\* the teams an object role is on: the team itself, or the teams of the organization
TeamsUnder(s, R) ==
    IF R.content_type = "team" THEN {R.object_id} \cap PksOf(s, "team")
    ELSE IF R.content_type = "organization"
    THEN {r[2] : r \in {x \in ObjectsOf(s, "team") : s.parent_id[x] = R.object_id}}
    ELSE {}

\* team P is a member of team T through a chain of at most n assignments of member
\* roles to teams
RECURSIVE TeamMemberOf(_, _, _, _)
TeamMemberOf(s, P, T, n) ==
    /\ n > 0
    /\ \E M \in s.object_roles :
          /\ team_permission \in s.permissions[M.role_definition]
          /\ T \in TeamsUnder(s, M)
          /\ \E Q \in RoleTeams(s, M) : Q = P \/ TeamMemberOf(s, P, Q, n - 1)

MembershipClosure(s, R, T) ==
    /\ team_permission \in s.permissions[R.role_definition]
    /\ \/ T \in TeamsUnder(s, R)
       \/ \E P \in TeamsUnder(s, R) : TeamMemberOf(s, P, T, Cardinality(PksOf(s, "team")))

\* C35: after every completed operation, for every object role R and existing team T,
\* T is in R.provides_teams if and only if the definition of R contains member_team and
\* R is on T or on the organization of T, or R is on a team P (or its organization)
\* that is a member of T through a chain of member roles assigned to teams
C35_ProvidesTeamsIsClosure ==
    last = "" =>
        \A R \in object_roles : \A T \in PksOf(DB, "team") :
            (<<R, T>> \in provides_teams) <=> MembershipClosure(DB, R, T)

----------------------------------------------------------------------------
(* The two read paths: the ids a model reports as accessible and the          *)
(* evaluation of one object                                                   *)

\* Model.accessible_ids(user, codename): every id of the model for an actor with a
\* bypass flag, otherwise the ids of the evaluation tuples of the actor's roles
AccessibleIdsDescriptor(s, model, user, codename) ==
    LET full_codename == validate_codename_for_model(codename, model)
    IN IF full_codename.err # "" THEN [err |-> full_codename.err, ids |-> {}]
       ELSE IF has_super_permission(s, user, codename)
            THEN [err |-> "", ids |-> PksOf(s, model)]
            ELSE [err |-> "", ids |-> accessible_ids(s, model, user, full_codename.name)]

\* C36: for every actor, existing resource and valid non-add code of the resource's
\* type, the resource's key is among the accessible ids of its model exactly when
\* has_obj_perm is true, also for an actor whose permission comes from a superuser
\* flag or a global role
C36_ReadPathsAgree ==
    \A u \in users : \A o \in DOMAIN parent_id :
        \A code \in meta_permissions(o[1]) \cup {Codename(a, o[1]) : a \in default_permissions(o[1])} :
        code[1] # "add" =>
            LET ids == AccessibleIdsDescriptor(DB, o[1], u, code)
                h == bound_has_obj_perm(DB, u, o, code)
            IN /\ ids.err = "" /\ h.err = ""
               /\ (o[2] \in ids.ids) <=> h.result

----------------------------------------------------------------------------
(* Deleting a role definition *)

\* C37: after a role definition that has object roles is deleted from a store whose
\* evaluation tuples are all justified, every tuple that remains on another object
\* role is still justified: nothing that only the deleted definition conferred is
\* left, in particular not on the member role of a team that held one of its roles
C37_DeletionRevokes ==
    C1_CacheSound =>
        \A rd \in DOMAIN permissions :
            (\E R \in object_roles : R.role_definition = rd) =>
                LET d == delete_role_definition(DB, rd)
                IN /\ d.err = ""
                   /\ \A e \in d.s.evaluations : Justified(d.s, e)

----------------------------------------------------------------------------
(* Tuples of deleted resources *)

\* C38: no ghost tuples after the deletion of a resource: when a registered resource,
\* team or not, is deleted, no evaluation tuple of any object role, those on its
\* parent and ancestors included, references its content type and id afterwards
C38_NoGhostTuples ==
    [][\A r \in DOMAIN parent_id :
          (r \notin DOMAIN parent_id' /\ last' = "") =>
              \A e \in evaluations' : Resource(e.content_type_id, e.object_id) # r]_vars

----------------------------------------------------------------------------
(* Grandchildren: a resource whose registered parent has a registered parent *)

GrandchildModels(ct) ==
    {m \in DOMAIN parent_fields :
        /\ parent_fields[m] \in DOMAIN parent_fields
        /\ parent_fields[parent_fields[m]] = ct}

\* the grandchildren of the model that are below the resource now
GrandchildrenBelow(s, on, model) ==
    {g[2] : g \in {x \in DOMAIN s.parent_id :
                      /\ x[1] = model
                      /\ x[1] \in GrandchildModels(on[1])
                      /\ Resource(parent_fields[x[1]], s.parent_id[x]) \in DOMAIN s.parent_id
                      /\ IsBelow(s, x, on)}}

\* every object role on a grandparent has, for each permission of a grandchild type
\* in its definition, a tuple for exactly the grandchildren below the grandparent
GrandparentExact(s) ==
    \A R \in s.object_roles : \A code \in s.permissions[R.role_definition] :
        (code[2] \in GrandchildModels(R.content_type) /\ ~is_add_perm(code)) =>
            {e.object_id : e \in {x \in RoleEvaluations(s, R) :
                                     x.codename = code /\ x.content_type_id = code[2]}}
            = GrandchildrenBelow(s, Resource(R.content_type, R.object_id), code[2])

\* C39: grandchild propagation under change: from a store in which the grandparent
\* roles have exactly the tuples of the grandchildren below them, the creation of a
\* grandchild, and the move of a grandchild to a parent that belongs to a different
\* grandparent, leave the grandparent roles with exactly the tuples of the
\* grandchildren that are below them afterwards
C39_GrandchildPropagation ==
    GrandparentExact(DB) =>
        \A model \in DOMAIN parent_fields : \A p \in DOMAIN parent_id :
            (parent_fields[model] = p[1] /\ p[1] \in DOMAIN parent_fields) =>
                /\ LET c == save(DB, set_original_parent(model, NextPk(DB, model), p[2]), TRUE)
                   IN c.err = "" /\ GrandparentExact(c.s)
                /\ \A r \in DOMAIN parent_id :
                      (/\ r[1] = model
                       /\ Resource(p[1], parent_id[r]) \in DOMAIN parent_id
                       /\ parent_id[Resource(p[1], parent_id[r])] # parent_id[p]) =>
                          LET m == save(DB, [set_original_parent(model, r[2], parent_id[r])
                                                EXCEPT !.parent_id = p[2]], FALSE)
                          IN m.err = "" /\ GrandparentExact(m.s)

----------------------------------------------------------------------------
(* The materializer run twice *)

====
